---------------------------- MODULE Spec2Model ----------------------------
(***************************************************************************)
(* Host-side tooling of the tokenized logging pipeline:                    *)
(*   tools/logging/gen_tokens.py   (token compiler, build id)              *)
(*   tools/logging/log_decoder.py  (varint / zig-zag codec, stream decoder)*)
(*   tools/telemetry/telemetry_manager.py (vitals packets, tiered analytics)*)
(*   tools/health/health_dashboard.py (running regression, task trends)    *)
(*   tools/health/crash_decoder.py (crash reports, address resolution)     *)
(*                                                                         *)
(* Conventions.                                                            *)
(*  - A Python str is a sequence of code points (naturals).               *)
(*  - A Python int that may exceed 31 bits is a pair <<hi, lo>> standing   *)
(*    for hi * 2^16 + lo, with 0 <= lo < 2^16 ("wide" natural).  A 32-bit  *)
(*    unsigned value has hi < 2^16 as well.                                *)
(*  - A signed Python int is [neg, mag]: mag when ~neg, -(mag)-1 when neg  *)
(*    (the value of  mag ^ -1).                                            *)
(***************************************************************************)
EXTENDS Integers, Sequences, FiniteSets, TLC

VARIABLES
    c_tokens,     \* gen_tokens.main: all_tokens, the scanned call sites
    c_db,         \* gen_tokens.main: db, in insertion order (a dict keeps it)
    c_build_id,   \* gen_tokens.main: build_id
    c_out,        \* tokens_generated.h / token_database.csv as written
    c_pc,         \* gen_tokens.main: position
    c_prev,       \* <<>>, or <<r>> with r the previous successful run of gen_tokens
    k_v,          \* codec round trip: the signed 32-bit value the firmware logs
    k_u,          \* its zig-zag encoding (unsigned 32-bit)
    k_back,       \* zigzag_decode(k_u)
    k_data,       \* a buffer holding the varint of k_u
    k_offset,     \* where the varint starts in k_data
    k_res,        \* decode_varint(k_data, k_offset)
    k_pc,         \* codec round trip: position
    d_sent,         \* the packets the firmware has written to RTT channel 1, in order
    d_wire,         \* bytes the RTT server has yet to deliver before it closes
    d_buffer,       \* RTTStreamReader.buffer
    d_expected,     \* decode_stream: expected_build_id, <<>> for None or <<id>>
    d_validate,     \* decode_stream: validate_build_id
    d_first_packet, \* decode_stream: first_packet
    d_out,          \* the JSON lines printed to out (without their 'ts')
    d_loc,          \* decode_stream: locals of the loop body
    d_pkt,          \* the bytes read_bytes has returned in this iteration
    d_pc,           \* decode_stream: position
    d_packet_count, \* decode_stream: packet_count
    d_report,       \* <<>>, or <<n>> once "Connection lost after n packets." is printed
    d_closed,       \* "no", or how sock.recv has reported the end: "eof" or "reset"
    d_retry,        \* read_bytes is trying again after a socket.timeout
    t_segs,          \* what the target and the line put on RTT channel 2, in order
    t_wire,          \* bytes the RTT server has yet to deliver
    t_peer,          \* what the far end does once everything was delivered
    t_buffer,        \* telemetry main: buffer
    t_packets,       \* telemetry main: packets still to go through the for loop
    t_got,           \* every packet extract_packets has returned so far, in order
    t_total_packets, \* telemetry main: total_packets
    t_an,            \* the TelemetryAnalytics object and the files it appends to
    t_events,        \* events of the latest process_packet call, as printed to stdout
    t_stderr,        \* the closing messages telemetry main has printed to stderr
    t_pc,            \* telemetry main: position
    v_buffer,        \* framing of one packet: the buffer given to extract_packets
    v_res,           \* extract_packets(v_buffer)
    v_sample,        \* decode_vitals_packet of the first packet: <<>> or <<sample>>
    v_pc,            \* framing of one packet: position
    n_tool,          \* initial connection: "log" (connect_with_retry) or "telemetry" (connect_rtt)
    n_max_retries,   \* connect_with_retry: max_retries
    n_base_delay,    \* connect_with_retry: base_delay, in seconds
    n_delay,         \* connect_with_retry: delay
    n_attempts,      \* connection attempts made so far
    n_slept,         \* the arguments of the time.sleep calls so far, in seconds
    n_pc,            \* initial connection: position
    h_series,        \* health dashboard: the samples of one task, <<t, cpu_pct, stack_hwm>>
    h_stats,         \* the TaskStats object of that task
    h_summary,       \* <<>>, or <<d>> with d what TaskStats.summary has returned
    h_heap,          \* the free heap of the samples: <<first value, step per sample>>
    h_system,        \* the SystemStats object
    h_output,        \* <<>>, or <<o>> with o the output of the last _emit_summary
    h_args,          \* process_telemetry's duration, summary_interval, alert_only
    h_calls,         \* the _emit_summary calls so far: sample_count, and whether it printed
    h_pc,            \* health dashboard: position
    x_crash,         \* crash decoder: the parsed crash record
    x_calls,         \* the runs of the symbolizer, in order: address and what came of it
    x_pc_info,       \* <<>>, or <<i>> with i what resolve_address gave for pc
    x_result,        \* <<>>, or <<r>> with r what decode_crash returned
    x_pc,            \* crash decoder: position
    s_an,            \* tiered engine on a clock: the TelemetryAnalytics object
    s_last_summary_time, \* its last_summary_time, in seconds
    s_now,           \* time.monotonic(), in seconds
    s_events,        \* what the latest process_packet call returned
    s_epoch,         \* the time of the engine's start or of the latest summary in s_events
    e_stream,        \* chunked framing: all bytes the target sends
    e_pos,           \* how many of them main has received
    e_buffer,        \* main: buffer
    e_got,           \* every packet extract_packets has returned so far, in order
    e_arg,           \* <<>>, or <<b>> with b the argument of the latest extract_packets call
    e_res,           \* what that call returned
    p_packets,       \* raw tier to dashboard: the vitals packets the target sends
    p_an,            \* the TelemetryAnalytics object; p_an.raw is the raw-tier file
    p_read,          \* how many lines of that file process_telemetry has read
    p_system,        \* process_telemetry: system_stats
    p_tasks,         \* process_telemetry: task_stats_map, in order of insertion
    p_output,        \* <<>>, or <<o>> with o the output of the final _emit_summary
    p_pc,            \* raw tier to dashboard: position
    g_fmt,           \* one format string, at compile time and at run time
    g_types,         \* <<>>, or <<t>> with t what parse_arg_types returned for it
    g_render         \* <<>>, or <<r>> with r what format_message came to for it

None == "None"

cvars == <<c_tokens, c_db, c_build_id, c_out, c_pc, c_prev>>
kvars == <<k_v, k_u, k_back, k_data, k_offset, k_res, k_pc>>
dvars == <<d_sent, d_wire, d_buffer, d_expected, d_validate, d_first_packet, d_out, d_loc,
           d_pkt, d_pc, d_packet_count, d_report, d_closed, d_retry>>
tvars == <<t_segs, t_wire, t_peer, t_buffer, t_packets, t_got, t_total_packets, t_an,
           t_events, t_stderr, t_pc>>
vvars == <<v_buffer, v_res, v_sample, v_pc>>
nvars == <<n_tool, n_max_retries, n_base_delay, n_delay, n_attempts, n_slept, n_pc>>
hvars == <<h_series, h_stats, h_summary, h_heap, h_system, h_output, h_args, h_calls, h_pc>>
xvars == <<x_crash, x_calls, x_pc_info, x_result, x_pc>>
svars == <<s_an, s_last_summary_time, s_now, s_events, s_epoch>>
evars == <<e_stream, e_pos, e_buffer, e_got, e_arg, e_res>>
pvars == <<p_packets, p_an, p_read, p_system, p_tasks, p_output, p_pc>>
gvars == <<g_fmt, g_types, g_render>>
vars == <<cvars, kvars, dvars, tvars, vvars, nvars, hvars, xvars, svars, evars, pvars, gvars>>

\* what a step of gen_tokens leaves alone
CFrame == UNCHANGED <<kvars, dvars, tvars, vvars, nvars, hvars, xvars, svars, evars, pvars, gvars>>
\* what a step of the codec round trip leaves alone
KFrame == UNCHANGED <<cvars, dvars, tvars, vvars, nvars, hvars, xvars, svars, evars, pvars, gvars>>
\* what a step of the decoder leaves alone
DFrame == UNCHANGED <<cvars, kvars, tvars, vvars, nvars, hvars, xvars, svars, evars, pvars, gvars>>
\* what a step of the telemetry manager leaves alone
TFrame == UNCHANGED <<cvars, kvars, dvars, vvars, nvars, hvars, xvars, svars, evars, pvars, gvars>>
\* what a step of the framing of one packet leaves alone
VFrame == UNCHANGED <<cvars, kvars, dvars, tvars, nvars, hvars, xvars, svars, evars, pvars, gvars>>
\* what a step of an initial connection leaves alone
NFrame == UNCHANGED <<cvars, kvars, dvars, tvars, vvars, hvars, xvars, svars, evars, pvars, gvars>>
\* what a step of the health dashboard leaves alone
HFrame == UNCHANGED <<cvars, kvars, dvars, tvars, vvars, nvars, xvars, svars, evars, pvars, gvars>>
\* what a step of the crash decoder leaves alone
XFrame == UNCHANGED <<cvars, kvars, dvars, tvars, vvars, nvars, hvars, svars, evars, pvars, gvars>>
\* what a step of the engine on its clock leaves alone
SFrame == UNCHANGED <<cvars, kvars, dvars, tvars, vvars, nvars, hvars, xvars, evars, pvars, gvars>>
\* what a step of the chunked framing leaves alone
EFrame == UNCHANGED <<cvars, kvars, dvars, tvars, vvars, nvars, hvars, xvars, svars, pvars, gvars>>
\* what a step of the raw tier or of the dashboard behind it leaves alone
PFrame == UNCHANGED <<cvars, kvars, dvars, tvars, vvars, nvars, hvars, xvars, svars, evars, gvars>>
\* what a step on one format string leaves alone
GFrame == UNCHANGED <<cvars, kvars, dvars, tvars, vvars, nvars, hvars, xvars, svars, evars, pvars>>

\* --------------------------------------------------------------------------
\* Wide naturals
\* --------------------------------------------------------------------------
W16 == 256 * 256

Min(a, b) == IF a < b THEN a ELSE b

\* TRUE; TLC evaluates x to decide it, which keeps the accumulator of a
\* recursive loop a value instead of a growing chain of pending applications
Strict(x) == x = x

WideLess(a, b) == a[1] < b[1] \/ (a[1] = b[1] /\ a[2] < b[2])

\* a + b for wide naturals
WideAdd(a, b) ==
    LET lo == a[2] + b[2]
    IN  <<a[1] + b[1] + (lo \div W16), lo % W16>>

RECURSIVE Pow2(_)
Pow2(n) == IF n = 0 THEN 1 ELSE 2 * Pow2(n - 1)

\* x << s for a small natural x (x < 2^8), as a wide natural
WideShl(x, s) ==
    IF s < 16
    THEN LET v == x * Pow2(s) IN <<v \div W16, v % W16>>
    ELSE <<x * Pow2(s - 16), 0>>

\* n >> 1
WideShr1(n) == <<n[1] \div 2, (n[1] % 2) * (W16 \div 2) + (n[2] \div 2)>>

\* n & 0xFFFFFFFF for a wide natural
WideMask32(n) == <<n[1] % W16, n[2]>>

\* bitwise XOR of two naturals below 2^n
RECURSIVE BitXor(_, _, _)
BitXor(a, b, n) ==
    IF n = 0 THEN 0
    ELSE ((a + b) % 2) + 2 * BitXor(a \div 2, b \div 2, n - 1)

\* --------------------------------------------------------------------------
\* gen_tokens.py: FNV-1a
\* --------------------------------------------------------------------------
FNV1A_32_INIT == <<33052, 40389>>      \* 0x811C9DC5
FNV1A_32_PRIME == <<256, 403>>         \* 0x01000193

\* h ^= ord(ch) & 0xFF
FnvXorByte(h, ch) == <<h[1], (h[2] \div 256) * 256 + BitXor(h[2] % 256, ch % 256, 8)>>

\* h = (h * FNV1A_32_PRIME) & FNV1A_32_MASK
FnvMulPrime(h) ==
    LET p0 == h[2] * FNV1A_32_PRIME[2]
        p1 == h[1] * FNV1A_32_PRIME[2] + h[2] * FNV1A_32_PRIME[1] + (p0 \div W16)
    IN  <<p1 % W16, p0 % W16>>

\* the loop body, once per character
FnvStep(h, ch) == FnvMulPrime(FnvXorByte(h, ch))

\* the for loop from character k of s on, h being the accumulator so far
RECURSIVE FnvFold(_, _, _)
FnvFold(h, s, k) ==
    IF Strict(h) /\ k > Len(s) THEN h
    ELSE FnvFold(FnvStep(h, s[k]), s, k + 1)

fnv1a_hash(s) == FnvFold(FNV1A_32_INIT, s, 1)

\* --------------------------------------------------------------------------
\* Python string formatting helpers
\* --------------------------------------------------------------------------
HexDigit(d) == IF d < 10 THEN 48 + d ELSE 87 + d       \* '0'..'9', 'a'..'f'

Hex4(x) ==
    <<HexDigit(x \div 4096), HexDigit((x \div 256) % 16),
      HexDigit((x \div 16) % 16), HexDigit(x % 16)>>

\* f'0x{h:08x}' for a 32-bit h
Hex0x08(h) == <<48, 120>> \o Hex4(h[1]) \o Hex4(h[2])

\* --------------------------------------------------------------------------
\* gen_tokens.py: build_token_database, compute_build_id
\* --------------------------------------------------------------------------
STR_retry == <<114, 101, 116, 114, 121, 32, 37, 100>>     \* "retry %d"
STR_neutral == <<109, 114, 99, 117, 117, 114, 119>>       \* "mrcuurw"
STR_A == <<65>>                                           \* "A"
STR_Lstroke == <<321>>                                    \* "Ł"

\* what scan_file returns for the LOG_xxx calls of a small source tree
SitePool ==
    { [level |-> "ERROR", fmt |-> STR_retry,   arg_types |-> <<100>>, file |-> "a.c", line |-> 10],
      [level |-> "INFO",  fmt |-> STR_retry,   arg_types |-> <<100>>, file |-> "b.c", line |-> 20],
      [level |-> "INFO",  fmt |-> STR_neutral, arg_types |-> <<>>,    file |-> "a.c", line |-> 30],
      [level |-> "WARN",  fmt |-> STR_A,       arg_types |-> <<>>,    file |-> "m.c", line |-> 40],
      [level |-> "DEBUG", fmt |-> STR_Lstroke, arg_types |-> <<>>,    file |-> "m.c", line |-> 50] }

MaxSites == 3

SeqsUpTo(S, n) == UNION { [1..k -> S] : k \in 0..n }

DbKeys(db) == { db[i].key : i \in 1..Len(db) }
DbKeySeq(db) == [i \in 1..Len(db) |-> db[i].key]
DbGet(db, key) == LET k == CHOOSE j \in 1..Len(db) : db[j].key = key IN db[k].val
DbFmts(db) == { db[i].val.fmt : i \in 1..Len(db) }

\* the unique format strings of a list of call sites
TokenFmts(tokens) == { tokens[i].fmt : i \in 1..Len(tokens) }

\* db[h] = v  (a dict keeps the position of a key it already holds)
DbPut(db, key, v) ==
    IF key \in DbKeys(db)
    THEN [i \in 1..Len(db) |-> IF db[i].key = key THEN [key |-> key, val |-> v] ELSE db[i]]
    ELSE Append(db, [key |-> key, val |-> v])

\* BuildLoop with "break" for "continue" at a repeated format string
RECURSIVE BuildLoopStopAtDup(_, _, _)
BuildLoopStopAtDup(tokens, i, st0) ==
    IF i > Len(tokens) \/ st0.exit THEN st0
    ELSE
        LET tok == tokens[i]
            fmt == tok.fmt
            h   == fnv1a_hash(fmt)
        IN  IF fmt \in st0.fmt_to_hash
            THEN st0
            ELSE IF h \in DbKeys(st0.db) /\ DbGet(st0.db, h).fmt # fmt
            THEN [st0 EXCEPT !.exit = TRUE]
            ELSE BuildLoopStopAtDup(tokens, i + 1,
                    [db |-> DbPut(st0.db, h,
                               [level |-> tok.level, fmt |-> fmt,
                                arg_types |-> tok.arg_types,
                                file |-> tok.file, line |-> tok.line]),
                     fmt_to_hash |-> st0.fmt_to_hash \cup {fmt},
                     exit |-> FALSE])

\* BuildLoop without the collision test: the later string takes the key
RECURSIVE BuildLoopNoCollisionTest(_, _, _)
BuildLoopNoCollisionTest(tokens, i, st0) ==
    IF i > Len(tokens) \/ st0.exit THEN st0
    ELSE
        LET tok == tokens[i]
            fmt == tok.fmt
            h   == fnv1a_hash(fmt)
        IN  IF fmt \in st0.fmt_to_hash
            THEN BuildLoopNoCollisionTest(tokens, i + 1, st0)
            ELSE BuildLoopNoCollisionTest(tokens, i + 1,
                    [db |-> DbPut(st0.db, h,
                               [level |-> tok.level, fmt |-> fmt,
                                arg_types |-> tok.arg_types,
                                file |-> tok.file, line |-> tok.line]),
                     fmt_to_hash |-> st0.fmt_to_hash \cup {fmt},
                     exit |-> FALSE])

\* the loop of build_token_database from token i on; st0 = [db, fmt_to_hash, exit]
RECURSIVE BuildLoop(_, _, _)
BuildLoop(tokens, i, st0) ==
    IF i > Len(tokens) \/ st0.exit THEN st0
    ELSE
        LET tok == tokens[i]
            fmt == tok.fmt
            h   == fnv1a_hash(fmt)
        IN  IF fmt \in st0.fmt_to_hash
            THEN BuildLoop(tokens, i + 1, st0)
            ELSE IF h \in DbKeys(st0.db) /\ DbGet(st0.db, h).fmt # fmt
            THEN [st0 EXCEPT !.exit = TRUE]
            ELSE BuildLoop(tokens, i + 1,
                    [db |-> DbPut(st0.db, h,
                               [level |-> tok.level, fmt |-> fmt,
                                arg_types |-> tok.arg_types,
                                file |-> tok.file, line |-> tok.line]),
                     fmt_to_hash |-> st0.fmt_to_hash \cup {fmt},
                     exit |-> FALSE])

build_token_database(tokens) ==
    BuildLoop(tokens, 1, [db |-> <<>>, fmt_to_hash |-> {}, exit |-> FALSE])

\* sorted(db.keys())
RECURSIVE SortKeys(_)
SortKeys(S) ==
    IF S = {} THEN <<>>
    ELSE LET m == CHOOSE x \in S : \A y \in S : ~WideLess(y, x)
         IN  <<m>> \o SortKeys(S \ {m})

\* sorted_hashes with the sort left out: the keys in insertion order
unsorted_hashes(db) == DbKeySeq(db)

sorted_hashes(db) == SortKeys(DbKeys(db))

\* JoinHex that leaves the last hash out
RECURSIVE JoinHexDropLast(_, _)
JoinHexDropLast(hs, i) ==
    IF i >= Len(hs) THEN <<>>
    ELSE (IF i > 1 THEN <<44>> ELSE <<>>) \o Hex0x08(hs[i]) \o JoinHexDropLast(hs, i + 1)

\* ','.join(f'0x{h:08x}' for h in hs)
RECURSIVE JoinHex(_, _)
JoinHex(hs, i) ==
    IF i > Len(hs) THEN <<>>
    ELSE (IF i > 1 THEN <<44>> ELSE <<>>) \o Hex0x08(hs[i]) \o JoinHex(hs, i + 1)

hash_str(db) == JoinHex(sorted_hashes(db), 1)

compute_build_id(db) ==
    IF db = <<>> THEN <<0, 0>>
    ELSE fnv1a_hash(hash_str(db))

\* --------------------------------------------------------------------------
\* log_decoder.py: decode_varint, zigzag_decode
\* --------------------------------------------------------------------------
\* VarintLoop that stops after four bytes (shift >= 28)
RECURSIVE VarintLoopFourBytes(_, _, _, _, _)
VarintLoopFourBytes(data, offset, i, result, shift) ==
    IF Strict(result) /\ i >= Len(data)
    THEN [value |-> result, consumed |-> i - offset]
    ELSE
        LET byte == data[i + 1]
            r2   == WideAdd(result, WideShl(byte % 128, shift))
        IN  IF byte \div 128 = 0 \/ shift + 7 >= 28
            THEN [value |-> r2, consumed |-> i + 1 - offset]
            ELSE VarintLoopFourBytes(data, offset, i + 1, r2, shift + 7)

\* the while loop of decode_varint at index i (0-based, as in the source)
RECURSIVE VarintLoop(_, _, _, _, _)
VarintLoop(data, offset, i, result, shift) ==
    IF Strict(result) /\ i >= Len(data)
    THEN [value |-> result, consumed |-> i - offset]
    ELSE
        LET byte == data[i + 1]
            \* result |= (byte & 0x7F) << shift  (the bits set are new ones)
            r2   == WideAdd(result, WideShl(byte % 128, shift))
        IN  IF byte \div 128 = 0
            THEN [value |-> r2, consumed |-> i + 1 - offset]
            ELSE IF shift + 7 >= 35
            THEN [value |-> r2, consumed |-> i + 1 - offset]
            ELSE VarintLoop(data, offset, i + 1, r2, shift + 7)

decode_varint(data, offset) == VarintLoop(data, offset, offset, <<0, 0>>, 0)

\* zigzag_decode without the sign:  n >> 1
zigzag_decode_unsigned(n) == [neg |-> FALSE, mag |-> WideShr1(n)]

\* (n >> 1) ^ -(n & 1):  x ^ 0 = x  and  x ^ -1 = -x - 1
zigzag_decode(n) == [neg |-> n[2] % 2 = 1, mag |-> WideShr1(n)]

\* a TLA+ integer in -2^31..2^31-1 as a signed Python int
SignedOf(v) ==
    LET m == IF v < 0 THEN -(v + 1) ELSE v
    IN  [neg |-> v < 0, mag |-> <<m \div W16, m % W16>>]

\* --------------------------------------------------------------------------
\* log_decoder.py: argument values and format_message
\* --------------------------------------------------------------------------
\* An argument value is a signed int [neg, mag] or a float [f32], the 32 bits
\* that struct.unpack('<f', ...) was given, as a wide natural.
IsFloatVal(val) == "f32" \in DOMAIN val

\* the float is NaN or an infinity: exponent bits all ones
FloatIsNaN(val) == (val.f32[1] \div 128) % 256 = 255 /\ <<val.f32[1] % 128, val.f32[2]>> # <<0, 0>>
FloatIsInf(val) == (val.f32[1] \div 128) % 256 = 255 /\ <<val.f32[1] % 128, val.f32[2]>> = <<0, 0>>

\* struct.unpack('<I', b)[0] for four bytes b
UnpackLE32(b) == <<b[4] * 256 + b[3], b[2] * 256 + b[1]>>

\* v & 0xFFFFFFFF for a signed int v
SignedMask32(v) ==
    IF v.neg THEN <<(W16 - 1) - (v.mag[1] % W16), (W16 - 1) - v.mag[2]>>
    ELSE <<v.mag[1] % W16, v.mag[2]>>

\* divmod(w, d) for a wide natural w and d in {10, 16}
WideDivMod(w, d) ==
    LET t == (w[1] % d) * W16 + w[2]
    IN  [q |-> <<w[1] \div d, t \div d>>, r |-> t % d]

\* str(w) for a wide natural w
RECURSIVE DecStr(_)
DecStr(w) ==
    IF w[1] = 0 /\ w[2] < 10 THEN <<48 + w[2]>>
    ELSE LET dm == WideDivMod(w, 10) IN Append(DecStr(dm.q), 48 + dm.r)

\* str(v) for a signed int v
IntStr(v) == IF v.neg THEN <<45>> \o DecStr(WideAdd(v.mag, <<0, 1>>)) ELSE DecStr(v.mag)

\* '{:x}'.format(w) and '{:X}'.format(w)
RECURSIVE HexStr(_, _)
HexStr(w, upper) ==
    LET dm  == WideDivMod(w, 16)
        dig == IF dm.r < 10 THEN 48 + dm.r ELSE IF upper THEN 55 + dm.r ELSE 87 + dm.r
    IN  IF w[1] = 0 /\ w[2] < 16 THEN <<dig>> ELSE Append(HexStr(dm.q, upper), dig)

\* The decimal expansion of a float is not computed: the text that stands for
\* it names the conversion and the 32 bits, so distinct floats stay distinct.
FloatText(conv, val) == conv \o <<40>> \o Hex0x08(val.f32) \o <<41>>

STR_fixed6 == <<46, 54, 102>>                     \* ".6f"
STR_str == <<115, 116, 114>>                      \* "str"
STR_int == <<105, 110, 116>>                      \* "int"
STR_zeros6 == <<46, 48, 48, 48, 48, 48, 48>>      \* ".000000"
\* str(e) of the exceptions the loop body can raise
STR_TypeErrorAnd ==
    <<117, 110, 115, 117, 112, 112, 111, 114, 116, 101, 100, 32, 111, 112, 101, 114,
      97, 110, 100, 32, 116, 121, 112, 101, 40, 115, 41, 32, 102, 111, 114, 32, 38, 58,
      32, 39, 102, 108, 111, 97, 116, 39, 32, 97, 110, 100, 32, 39, 105, 110, 116, 39>>
STR_IntOfNaN ==
    <<99, 97, 110, 110, 111, 116, 32, 99, 111, 110, 118, 101, 114, 116, 32, 102, 108,
      111, 97, 116, 32, 78, 97, 78, 32, 116, 111, 32, 105, 110, 116, 101, 103, 101, 114>>
STR_IntOfInf ==
    <<99, 97, 110, 110, 111, 116, 32, 99, 111, 110, 118, 101, 114, 116, 32, 102, 108,
      111, 97, 116, 32, 105, 110, 102, 105, 110, 105, 116, 121, 32, 116, 111, 32, 105,
      110, 116, 101, 103, 101, 114>>

Raised(msg) == [raised |-> TRUE, text |-> msg]
Returned(text) == [raised |-> FALSE, text |-> text]

\* str(int(val) & 0xFFFFFFFF) without the mask
RenderUnsignedNoMask(val) == Returned(IntStr(val))

\* str(int(val) & 0xFFFFFFFF) for an int val
RenderUnsigned(val) == Returned(DecStr(SignedMask32(val)))

\* the text one conversion specifier appends for val, or the exception
RenderArg(spec, val) ==
    IF spec \in {100, 105, 117, 120, 88}                                   \* d i u x X
    THEN IF IsFloatVal(val)
         THEN IF FloatIsNaN(val) THEN Raised(STR_IntOfNaN)
              ELSE IF FloatIsInf(val) THEN Raised(STR_IntOfInf)
              ELSE Returned(FloatText(STR_int \o <<spec>>, val))
         ELSE IF spec \in {100, 105} THEN Returned(IntStr(val))
         ELSE IF spec = 117 THEN RenderUnsigned(val)
         ELSE Returned(HexStr(SignedMask32(val), spec = 88))
    ELSE IF spec \in {102, 70, 101, 69, 103, 71}                           \* f F e E g G
    THEN IF IsFloatVal(val) THEN Returned(FloatText(STR_fixed6, val))
         ELSE Returned(IntStr(val) \o STR_zeros6)
    ELSE IF IsFloatVal(val) THEN Returned(FloatText(STR_str, val))         \* str(val)
    ELSE Returned(IntStr(val))

\* the index after the characters of S that start at j
RECURSIVE SkipIn(_, _, _)
SkipIn(str, j, S) == IF j <= Len(str) /\ str[j] \in S THEN SkipIn(str, j + 1, S) ELSE j

\* the index of the conversion specifier of the '%' at index i
SpecIndex(str, i) ==
    LET j1 == SkipIn(str, i + 1, {45, 43, 48, 32, 35})                     \* '-+0 #'
        j2 == SkipIn(str, j1, 48..57)                                      \* isdigit
        j3 == IF j2 <= Len(str) /\ str[j2] = 46 THEN SkipIn(str, j2 + 1, 48..57) ELSE j2
    IN  SkipIn(str, j3, {104, 108, 76, 122, 106, 116})                     \* 'hlLzjt'

\* the while loop of format_message at index i (1-based); with the text it
\* gives arg_idx as it stands when the loop ends
RECURSIVE FormatLoop(_, _, _, _, _)
FormatLoop(str, args, i, arg_idx, output) ==
    IF Strict(output) /\ i > Len(str)
    THEN [raised |-> FALSE, text |-> output, arg_idx |-> arg_idx]
    ELSE IF str[i] = 37 /\ i + 1 <= Len(str) /\ SpecIndex(str, i) <= Len(str)
    THEN LET j    == SpecIndex(str, i)
             spec == str[j]
         IN  IF spec = 37 THEN FormatLoop(str, args, j + 1, arg_idx, Append(output, 37))
             ELSE IF arg_idx < Len(args)
             THEN LET r == RenderArg(spec, args[arg_idx + 1])
                  IN  IF r.raised THEN r
                      ELSE FormatLoop(str, args, j + 1, arg_idx + 1, output \o r.text)
             ELSE FormatLoop(str, args, j + 1, arg_idx, output \o SubSeq(str, i, j))
    ELSE FormatLoop(str, args, i + 1, arg_idx, Append(output, str[i]))

format_message(fmt_string, args) == FormatLoop(fmt_string, args, 1, 0, <<>>)

\* --------------------------------------------------------------------------
\* The firmware side of the codec (log_core.c, not part of the host tools):
\* zig-zag encoding (v << 1) ^ (v >> 31) on 32 bits and base-128 varint
\* --------------------------------------------------------------------------
\* the two's complement bits of a signed 32-bit v, as an unsigned 32-bit value
TwosComplement32(v) ==
    IF v >= 0 THEN <<v \div W16, v % W16>>
    ELSE LET m == -(v + 1) IN <<(W16 - 1) - (m \div W16), (W16 - 1) - (m % W16)>>

ZigzagEncode(v) ==
    LET t    == TwosComplement32(v)
        shl  == <<(t[1] * 2 + (t[2] \div (W16 \div 2))) % W16, (t[2] * 2) % W16>>
    IN  IF v >= 0 THEN shl                                  \* ^ 0x00000000
        ELSE <<(W16 - 1) - shl[1], (W16 - 1) - shl[2]>>      \* ^ 0xFFFFFFFF

WideDiv128(u) == <<u[1] \div 128, (u[1] % 128) * (W16 \div 128) + (u[2] \div 128)>>

RECURSIVE VarintEncode(_)
VarintEncode(u) ==
    IF u[1] = 0 /\ u[2] < 128 THEN <<u[2]>>
    ELSE <<128 + (u[2] % 128)>> \o VarintEncode(WideDiv128(u))

\* --------------------------------------------------------------------------
\* Codec round trip: the firmware encodes a value, the host decodes it
\* --------------------------------------------------------------------------
Int32Min == -2147483647 - 1
Int32Max == 2147483647

\* values around every varint length boundary of the zig-zag encoding
SampleInts ==
    { Int32Min, Int32Min + 1, -1073741825, -1073741824, -134217729, -134217728,
      -1048577, -1048576, -65537, -65536, -32769, -32768, -8193, -8192, -129, -128,
      -65, -64, -3, -2, -1, 0, 1, 2, 63, 64, 127, 128, 2048, 4096, 8191, 8192,
      32767, 32768, 65535, 65536, 1048575, 1048576, 134217727, 134217728,
      1073741823, 1073741824, Int32Max - 1, Int32Max }

\* bytes before the varint in the buffer, and bytes after it
SamplePrefixes == { <<>>, <<128>>, <<255, 1>> }
SampleSuffixes == { <<>>, <<0>>, <<128, 1>>, <<255, 255>> }

KZigzagEncode ==
    /\ k_pc = "value"
    /\ k_u' = ZigzagEncode(k_v)
    /\ k_pc' = "zigzag"
    /\ UNCHANGED <<k_v, k_back, k_data, k_offset, k_res>>
    /\ KFrame

KZigzagDecode ==
    /\ k_pc = "zigzag"
    /\ k_back' = zigzag_decode(k_u)
    /\ k_pc' = "back"
    /\ UNCHANGED <<k_v, k_u, k_data, k_offset, k_res>>
    /\ KFrame

KVarintEncode ==
    /\ k_pc = "back"
    /\ \E pre \in SamplePrefixes, suf \in SampleSuffixes :
          /\ k_data' = pre \o VarintEncode(k_u) \o suf
          /\ k_offset' = Len(pre)
    /\ k_pc' = "varint"
    /\ UNCHANGED <<k_v, k_u, k_back, k_res>>
    /\ KFrame

KVarintDecode ==
    /\ k_pc = "varint"
    /\ k_res' = decode_varint(k_data, k_offset)
    /\ k_pc' = "decoded"
    /\ UNCHANGED <<k_v, k_u, k_back, k_data, k_offset>>
    /\ KFrame

KNext == KZigzagEncode \/ KZigzagDecode \/ KVarintEncode \/ KVarintDecode

\* --------------------------------------------------------------------------
\* log_decoder.py: RTTStreamReader, decode_stream
\* --------------------------------------------------------------------------
LEVEL_NAMES(level) ==
    CASE level = 0 -> "ERROR"
      [] level = 1 -> "WARN"
      [] level = 2 -> "INFO"
      [] level = 3 -> "DEBUG"
      [] OTHER -> "UNKNOWN"

STR_heap == <<104, 101, 97, 112, 61, 37, 117, 32, 102, 114, 101, 101>>   \* "heap=%u free"
STR_build == <<66, 85, 73, 76, 68, 95, 73, 68, 32, 37, 120>>             \* "BUILD_ID %x"
STR_temp == <<116, 61, 37, 102>>                                         \* "t=%f"
STR_BUILD_ID == <<66, 85, 73, 76, 68, 95, 73, 68>>                       \* "BUILD_ID"
STR_unknown_token ==                                                     \* "<unknown token "
    <<60, 117, 110, 107, 110, 111, 119, 110, 32, 116, 111, 107, 101, 110, 32>>
STR_mismatch ==                                              \* "BUILD_ID mismatch! Firmware="
    <<66, 85, 73, 76, 68, 95, 73, 68, 32, 109, 105, 115, 109, 97, 116, 99, 104, 33, 32,
      70, 105, 114, 109, 119, 97, 114, 101, 61>>
STR_csv == <<44, 32, 67, 83, 86, 61>>                                    \* ", CSV="

\* what load_token_database returns for the token_database.csv of the session
DecoderDb ==
    << [key |-> <<43981, 4660>>,                                          \* 0xabcd1234
        val |-> [level |-> "INFO", fmt |-> STR_heap, arg_types |-> <<117>>,
                 file |-> "heap.c", line |-> 42]],
       [key |-> <<35306, 52838>>,                                         \* 0x89eace66
        val |-> [level |-> "INFO", fmt |-> STR_build, arg_types |-> <<120>>,
                 file |-> "log_core.c", line |-> 12]],
       [key |-> <<32186, 34330>>,                                         \* 0x7dba861a
        val |-> [level |-> "ERROR", fmt |-> STR_retry, arg_types |-> <<100>>,
                 file |-> "a.c", line |-> 10]],
       [key |-> <<43356, 26801>>,                                         \* 0xa95c68b1
        val |-> [level |-> "DEBUG", fmt |-> STR_temp, arg_types |-> <<102>>,
                 file |-> "t.c", line |-> 7]] >>

\* the build id the firmware announces, and another one
FirmwareBuildId == <<61199, 64019>>       \* 0xef0ffa13
OtherBuildId == <<28431, 64019>>          \* 0x6f0ffa13

\* packets as the firmware sends them
PKT_heap_zz == <<52, 18, 205, 171, 33, 128, 64>>            \* heap, zig-zag varint of 4096
PKT_heap_raw == <<52, 18, 205, 171, 33, 128, 32>>           \* heap, plain varint of 4096
PKT_heap_big == <<52, 18, 205, 171, 33, 255, 63>>           \* heap, zig-zag of 0xfffff000
PKT_build == <<102, 206, 234, 137, 33, 217, 151, 128, 143, 2>>   \* BUILD_ID 0xef0ffa13
PKT_retry == <<26, 134, 186, 125, 1, 5>>                    \* retry, zig-zag of -3
PKT_temp == <<177, 104, 92, 169, 49, 0, 0, 192, 63>>        \* t, float 1.5
PKT_unknown == <<239, 190, 173, 222, 50, 5, 129, 1>>        \* 0xdeadbeef, DEBUG, two varints
PKT_unknown_short == <<239, 190, 173, 222, 50, 5>>          \* the same, one varint missing

\* packets a damaged or foreign stream can hold
PKT_retry_two == <<26, 134, 186, 125, 2, 5, 7>>             \* retry with a second varint
PKT_temp_two == <<177, 104, 92, 169, 50, 0, 0, 192, 63, 172, 2>>  \* t, float and a varint
PKT_heap_wide == <<52, 18, 205, 171, 33, 255, 255, 255, 255, 127>> \* heap, 35 payload bits
PKT_heap_long == <<52, 18, 205, 171, 33, 128, 128, 128, 128, 128, 1>> \* heap, six varint bytes
PKT_unknown_long == <<239, 190, 173, 222, 49, 128, 128, 128, 128, 128, 1>> \* 0xdeadbeef, the same

PKT_build_bare == <<102, 206, 234, 137, 32>>                \* BUILD_ID, no argument on the wire
PKT_retry_info == <<26, 134, 186, 125, 33, 5>>              \* retry as b.c logs it, at INFO

\* the packets tried for the framing of arguments
FramePool ==
    { PKT_heap_zz, PKT_retry, PKT_temp, PKT_retry_two, PKT_temp_two, PKT_heap_wide,
      PKT_heap_long, PKT_unknown, PKT_unknown_long, PKT_retry_info }

PacketPool ==
    { PKT_heap_zz, PKT_heap_raw, PKT_heap_big, PKT_build, PKT_retry, PKT_temp,
      PKT_unknown, PKT_unknown_short }

MaxPackets == 2

RECURSIVE Concat(_, _)
Concat(ps, k) == IF k > Len(ps) THEN <<>> ELSE ps[k] \o Concat(ps, k + 1)

\* (expected_build_id, validate_build_id) as main passes them
Sessions ==
    { <<<<FirmwareBuildId>>, TRUE>>, <<<<OtherBuildId>>, TRUE>>, <<<<>>, TRUE>>,
      <<<<OtherBuildId>>, FALSE>> }

Contains(str, sub) ==
    \E k \in 0..(Len(str) - Len(sub)) : SubSeq(str, k + 1, k + Len(sub)) = sub

Known(token_id) == token_id \in DbKeys(DecoderDb)
Entry(token_id) == DbGet(DecoderDb, token_id)

\* an argument test that takes every declared position for a float
IsFloatArgDeclared(arg_types, i) == i < Len(arg_types)
\* decode_stream: is_float = (i < len(arg_types) and arg_types[i] == 'f')
IsFloatArg(arg_types, i) == i < Len(arg_types) /\ arg_types[i + 1] = 102

LocInit ==
    [token_id |-> <<0, 0>>, level |-> 0, arg_count |-> 0, args |-> <<>>, i |-> 0,
     varint_bytes |-> <<>>, more |-> FALSE]

\* the n of the read_bytes(n) call the loop body is at
Need ==
    CASE d_pc = "token" -> 4
      [] d_pc = "meta" -> 1
      [] d_pc = "args" ->
           IF IsFloatArg(Entry(d_loc.token_id).arg_types, d_loc.i) THEN 4 ELSE 1
      [] d_pc = "skip" -> 1
      [] OTHER -> 0

Blocked == Len(d_buffer) < Need
Ready == d_pc \in {"token", "meta", "args", "skip"} /\ ~Blocked
Taken == SubSeq(d_buffer, 1, Need)
Left == SubSeq(d_buffer, Need + 1, Len(d_buffer))

\* read_bytes: sock.recv(4096) returns some of the pending bytes
DRecv ==
    /\ Blocked
    /\ d_wire # <<>>
    /\ \E n \in {1, Min(Len(d_wire), 4096)} :
          /\ d_buffer' = d_buffer \o SubSeq(d_wire, 1, n)
          /\ d_wire' = SubSeq(d_wire, n + 1, Len(d_wire))
    /\ d_retry' = FALSE
    /\ UNCHANGED <<d_sent, d_expected, d_validate, d_first_packet, d_out, d_loc, d_pkt, d_pc,
                   d_packet_count, d_report, d_closed>>
    /\ DFrame

\* read_bytes: sock.recv raises socket.timeout, the loop tries again
DRecvTimeout ==
    /\ Blocked
    /\ d_closed = "no"
    /\ d_retry' = TRUE
    /\ UNCHANGED <<d_sent, d_wire, d_buffer, d_expected, d_validate, d_first_packet, d_out,
                   d_loc, d_pkt, d_pc, d_packet_count, d_report, d_closed>>
    /\ DFrame

\* the ways sock.recv can report the end now: b'' once the server has sent
\* everything and closed, ConnectionResetError at any time
EndsNow ==
    IF d_closed # "no" THEN {d_closed}
    ELSE IF d_wire = <<>> THEN {"eof", "reset"} ELSE {"reset"}

\* read_bytes: sock.recv returns b'' and ConnectionError is raised, or raises
\* ConnectionResetError; the skip loop catches it and breaks, anywhere else
\* decode_stream reports packet_count and leaves its loop
DRecvClosed ==
    /\ Blocked
    /\ \E how \in EndsNow : d_closed' = how
    /\ d_wire' = <<>>
    /\ d_retry' = FALSE
    /\ d_pc' = IF d_pc = "skip" THEN "emit" ELSE "lost"
    /\ d_report' = IF d_pc = "skip" THEN d_report ELSE <<d_packet_count>>
    /\ UNCHANGED <<d_sent, d_buffer, d_expected, d_validate, d_first_packet, d_out, d_loc,
                   d_pkt, d_packet_count>>
    /\ DFrame

\* 1. token_bytes = reader.read_bytes(4)
DReadToken ==
    /\ d_pc = "token"
    /\ Ready
    /\ d_loc' = [LocInit EXCEPT !.token_id = UnpackLE32(Taken)]
    /\ d_pkt' = Taken
    /\ d_buffer' = Left
    /\ d_pc' = "meta"
    /\ UNCHANGED <<d_sent, d_wire, d_expected, d_validate, d_first_packet, d_out,
                   d_packet_count, d_report, d_closed, d_retry>>
    /\ DFrame

\* 2. meta_byte = reader.read_bytes(1)[0]   3. entry = db.get(token_id)
DReadMeta ==
    /\ d_pc = "meta"
    /\ Ready
    /\ LET meta_byte == Taken[1]
           arg_count == meta_byte % 16
       IN  /\ d_loc' = [d_loc EXCEPT !.level = (meta_byte \div 16) % 16,
                                     !.arg_count = arg_count]
           /\ d_pc' = IF arg_count = 0 THEN "emit"
                      ELSE IF Known(d_loc.token_id) THEN "args" ELSE "skip"
    /\ d_pkt' = d_pkt \o Taken
    /\ d_buffer' = Left
    /\ UNCHANGED <<d_sent, d_wire, d_expected, d_validate, d_first_packet, d_out,
                   d_packet_count, d_report, d_closed, d_retry>>
    /\ DFrame

\* the locals after one read in the argument loop of a known token
ArgStep(loc, arg_types, bytes) ==
    IF IsFloatArg(arg_types, loc.i)
    THEN [loc EXCEPT !.args = Append(@, [f32 |-> UnpackLE32(bytes)]), !.i = @ + 1]
    ELSE LET vb == Append(loc.varint_bytes, bytes[1])
         IN  IF bytes[1] \div 128 = 0 \/ Len(vb) >= 5
             THEN [loc EXCEPT !.args = Append(@, zigzag_decode(decode_varint(vb, 0).value)),
                              !.i = @ + 1, !.varint_bytes = <<>>]
             ELSE [loc EXCEPT !.varint_bytes = vb]

DReadArg ==
    /\ d_pc = "args"
    /\ Ready
    /\ d_loc' = ArgStep(d_loc, Entry(d_loc.token_id).arg_types, Taken)
    /\ d_pc' = IF d_loc'.i = d_loc.arg_count THEN "emit" ELSE "args"
    /\ d_pkt' = d_pkt \o Taken
    /\ d_buffer' = Left
    /\ UNCHANGED <<d_sent, d_wire, d_expected, d_validate, d_first_packet, d_out,
                   d_packet_count, d_report, d_closed, d_retry>>
    /\ DFrame

\* SkipStep that takes every byte for a whole argument
SkipStepEveryByte(loc, b) == [loc EXCEPT !.i = @ + 1]

\* the locals after one read in the skip loop of an unknown token
SkipStep(loc, b) ==
    IF b \div 128 = 0 THEN [loc EXCEPT !.i = @ + 1, !.more = FALSE]
    ELSE [loc EXCEPT !.more = TRUE]

DSkipByte ==
    /\ d_pc = "skip"
    /\ Ready
    /\ d_loc' = SkipStep(d_loc, Taken[1])
    /\ d_pc' = IF d_loc'.i = d_loc.arg_count THEN "emit" ELSE "skip"
    /\ d_pkt' = d_pkt \o Taken
    /\ d_buffer' = Left
    /\ UNCHANGED <<d_sent, d_wire, d_expected, d_validate, d_first_packet, d_out,
                   d_packet_count, d_report, d_closed, d_retry>>
    /\ DFrame

KnownRecord(loc, msg) ==
    [level |-> Entry(loc.token_id).level, msg |-> msg, token |-> Hex0x08(loc.token_id),
     file |-> Entry(loc.token_id).file, line |-> Entry(loc.token_id).line,
     raw_args |-> loc.args,
     build_id_verified |-> FALSE]       \* TRUE: the key '_build_id_verified' is set

UnknownRecord(loc) ==
    [level |-> LEVEL_NAMES(loc.level),
     msg |-> STR_unknown_token \o Hex0x08(loc.token_id) \o <<62>>,
     token |-> Hex0x08(loc.token_id), raw_args |-> <<>>]

FatalRecord(firmware, csv) ==
    [level |-> "FATAL", msg |-> STR_mismatch \o Hex0x08(firmware) \o STR_csv \o Hex0x08(csv)]

ErrorRecord(msg) == [level |-> "DECODER_ERROR", msg |-> msg]

\* a count that misses the first record
PacketCountAfterFirstFree(n) == IF n = 0 /\ d_out = <<>> THEN 0 ELSE n + 1
\* decode_stream: packet_count after the record was printed
PacketCountAfter(n) == n + 1

\* the build-id test applies to this iteration
BuildIdTestDue == d_first_packet /\ d_validate /\ d_expected # <<>>

\* from format_message to the print of the record, in one step (no read)
DEmit ==
    /\ d_pc = "emit"
    /\ LET known  == Known(d_loc.token_id)
           fm     == format_message(Entry(d_loc.token_id).fmt, d_loc.args)
           record == IF known THEN KnownRecord(d_loc, fm.text) ELSE UnknownRecord(d_loc)
           marker == BuildIdTestDue /\ known /\ Contains(Entry(d_loc.token_id).fmt, STR_BUILD_ID)
       IN  IF known /\ fm.raised
           THEN /\ d_out' = Append(d_out, ErrorRecord(fm.text))
                /\ d_first_packet' = d_first_packet
                /\ d_packet_count' = d_packet_count
                /\ d_pc' = "token"
           ELSE IF marker /\ d_loc.args # <<>> /\ IsFloatVal(d_loc.args[1])
           THEN /\ d_out' = Append(d_out, ErrorRecord(STR_TypeErrorAnd))
                /\ d_first_packet' = FALSE
                /\ d_packet_count' = d_packet_count
                /\ d_pc' = "token"
           ELSE IF marker /\ d_loc.args # <<>>
                   /\ SignedMask32(d_loc.args[1]) # WideMask32(d_expected[1])
           THEN /\ d_out' = Append(d_out, FatalRecord(SignedMask32(d_loc.args[1]),
                                                      WideMask32(d_expected[1])))
                /\ d_first_packet' = FALSE
                /\ d_packet_count' = d_packet_count
                /\ d_pc' = "exit2"
           ELSE /\ d_out' = Append(d_out, IF marker
                                          THEN [record EXCEPT !.build_id_verified = TRUE]
                                          ELSE record)
                /\ d_first_packet' = IF BuildIdTestDue THEN FALSE ELSE d_first_packet
                /\ d_packet_count' = PacketCountAfter(d_packet_count)
                /\ d_pc' = "token"
    /\ UNCHANGED <<d_sent, d_wire, d_buffer, d_expected, d_validate, d_loc, d_pkt, d_report,
                   d_closed, d_retry>>
    /\ DFrame

DNext ==
    \/ DRecv \/ DRecvTimeout \/ DRecvClosed
    \/ DReadToken \/ DReadMeta \/ DReadArg \/ DSkipByte \/ DEmit

\* --------------------------------------------------------------------------
\* gen_tokens.py: main, run again after each edit of the source tree
\* --------------------------------------------------------------------------
\* db = build_token_database(all_tokens)
CBuild ==
    /\ c_pc = "build"
    /\ LET r == build_token_database(c_tokens)
       IN  IF r.exit
           THEN c_pc' = "exit1" /\ UNCHANGED c_db
           ELSE c_pc' = "id" /\ c_db' = r.db
    /\ UNCHANGED <<c_tokens, c_build_id, c_out, c_prev>>
    /\ CFrame

\* build_id = compute_build_id(db)
CComputeId ==
    /\ c_pc = "id"
    /\ c_build_id' = compute_build_id(c_db)
    /\ c_pc' = "write"
    /\ UNCHANGED <<c_tokens, c_db, c_out, c_prev>>
    /\ CFrame

\* write_header(...); write_csv(...)
CWrite ==
    /\ c_pc = "write"
    /\ c_out' = [build_id |-> c_build_id, token_count |-> Len(c_db),
                 rows |-> [i \in 1..Len(c_db) |->
                             LET h == sorted_hashes(c_db)[i]
                             IN  [key |-> h, val |-> DbGet(c_db, h)]]]
    /\ c_pc' = "done"
    /\ UNCHANGED <<c_tokens, c_db, c_build_id, c_prev>>
    /\ CFrame

RemoveAt(seq, at) == [j \in 1..(Len(seq) - 1) |-> IF j < at THEN seq[j] ELSE seq[j + 1]]
SwapAt(seq, at) ==
    [j \in 1..Len(seq) |->
        IF j = at THEN seq[at + 1] ELSE IF j = at + 1 THEN seq[at] ELSE seq[j]]

\* the source tree is edited (a call added, removed, or two calls reordered)
\* and gen_tokens runs again
CRescan ==
    /\ c_pc \in {"done", "exit1"}
    /\ \/ \E s \in SitePool : Len(c_tokens) < MaxSites /\ c_tokens' = Append(c_tokens, s)
       \/ \E i \in 1..Len(c_tokens) : c_tokens' = RemoveAt(c_tokens, i)
       \/ \E i \in 1..(Len(c_tokens) - 1) :
             c_tokens[i] # c_tokens[i + 1] /\ c_tokens' = SwapAt(c_tokens, i)
    /\ c_prev' = IF c_pc = "done"
                 THEN <<[keys |-> DbKeySeq(c_db), fmts |-> TokenFmts(c_tokens),
                         hash_str |-> hash_str(c_db), build_id |-> c_build_id]>>
                 ELSE c_prev
    /\ c_db' = <<>>
    /\ c_build_id' = None
    /\ c_out' = None
    /\ c_pc' = "build"
    /\ CFrame

CNext == CBuild \/ CComputeId \/ CWrite \/ CRescan

\* --------------------------------------------------------------------------
\* telemetry_manager.py: packet format, decode_vitals_packet, extract_packets
\* --------------------------------------------------------------------------
PKT_SYSTEM_VITALS == 1
HEADER_SIZE == 14
TASK_ENTRY_SIZE == 8

\* TASK_STATES, a dict keyed 0..4, as the sequence of its values
TASK_STATES ==
    << <<82, 117, 110, 110, 105, 110, 103>>,   \* "Running"
       <<82, 101, 97, 100, 121>>,           \* "Ready"
       <<66, 108, 111, 99, 107, 101, 100>>,   \* "Blocked"
       <<83, 117, 115, 112, 101, 110, 100, 101, 100>>,   \* "Suspended"
       <<68, 101, 108, 101, 116, 101, 100>> >>  \* "Deleted"

\* a Python int below 2^31 as a wide natural
WideOfInt(v) == <<v \div W16, v % W16>>

\* TASK_STATES.get(state, f"Unknown({state})")
TaskStateName(state) ==
    IF state + 1 \in DOMAIN TASK_STATES
    THEN TASK_STATES[state + 1]
    ELSE <<85, 110, 107, 110, 111, 119, 110, 40>>   \* "Unknown("
         \o DecStr(WideOfInt(state)) \o <<41>>

\* struct fields of "<BIIIB" and "<BBBHBH": little-endian, at a 0-based offset.
\* The packets sampled below keep every 32-bit field under 2^31.
U8(data, off) == data[off + 1]
U16LE(data, off) == data[off + 1] + 256 * data[off + 2]
U32LE(data, off) == U16LE(data, off) + W16 * U16LE(data, off + 2)

\* one iteration of the task loop of decode_vitals_packet
TaskEntry(data, offset) ==
    [task_number     |-> U8(data, offset),
     state           |-> TaskStateName(U8(data, offset + 1)),
     priority        |-> U8(data, offset + 2),
     stack_hwm_words |-> U16LE(data, offset + 3),
     cpu_pct         |-> U8(data, offset + 5),
     runtime_ms      |-> U16LE(data, offset + 6)]

\* a task loop whose offset never advances
TaskOffsetStuck(k) == HEADER_SIZE
\* decode_vitals_packet: offset at the k-th iteration of the task loop
TaskOffset(k) == HEADER_SIZE + (k - 1) * TASK_ENTRY_SIZE

\* decode_vitals_packet: <<>> for None, <<sample>> otherwise
decode_vitals_packet(data) ==
    IF Len(data) < HEADER_SIZE THEN <<>>
    ELSE LET pkt_type == U8(data, 0)
             task_count == U8(data, 13)
             expected_size == HEADER_SIZE + task_count * TASK_ENTRY_SIZE
         IN IF pkt_type # PKT_SYSTEM_VITALS THEN <<>>
            ELSE IF Len(data) < expected_size THEN <<>>
            ELSE << [type            |-> "system_vitals",
                     timestamp_ticks |-> U32LE(data, 1),
                     free_heap       |-> U32LE(data, 5),
                     min_free_heap   |-> U32LE(data, 9),
                     task_count      |-> task_count,
                     tasks           |-> [k \in 1..task_count |->
                                              TaskEntry(data, TaskOffset(k))]] >>

\* a resynchronisation that jumps a whole header
SkipOnMismatchHeader(offset) == offset + HEADER_SIZE
\* extract_packets: the cursor after a byte that is not the vitals type
SkipOnMismatch(offset) == offset + 1

\* a list that grows at its front
CollectInFront(packets, pkt) == <<pkt>> \o packets
\* extract_packets: packets.append(...)
Collect(packets, pkt) == Append(packets, pkt)

\* extract_packets: the while loop
RECURSIVE ExtractLoop(_, _, _)
ExtractLoop(buffer, offset, packets) ==
    IF ~(Strict(packets) /\ offset + HEADER_SIZE <= Len(buffer))
    THEN [packets |-> packets, rest |-> SubSeq(buffer, offset + 1, Len(buffer))]
    ELSE LET pkt_type == U8(buffer, offset)
             task_count == U8(buffer, offset + 13)
             packet_size == HEADER_SIZE + task_count * TASK_ENTRY_SIZE
         IN IF pkt_type # PKT_SYSTEM_VITALS
            THEN ExtractLoop(buffer, SkipOnMismatch(offset), packets)
            ELSE IF offset + packet_size > Len(buffer)
            THEN [packets |-> packets, rest |-> SubSeq(buffer, offset + 1, Len(buffer))]
            ELSE ExtractLoop(buffer, offset + packet_size,
                     Collect(packets, SubSeq(buffer, offset + 1, offset + packet_size)))

extract_packets(buffer) == ExtractLoop(buffer, 0, <<>>)

\* --------------------------------------------------------------------------
\* telemetry_manager.py: framing and decoding of one packet, for every task_count
\* --------------------------------------------------------------------------
\* task_count is the last 'B' of HEADER_FORMAT
TaskCountMax == 255

\* the k-th task entry a target may send: eight bytes that differ from entry to entry
SentEntry(k) ==
    <<k % 256, k % 7, k % 5, (k * 37) % 256, k % 2, k % 101, (k * 11) % 256, k % 3>>

\* c task entries, one after the other
SentEntries(c) ==
    [i \in 1..(TASK_ENTRY_SIZE * c) |->
        SentEntry(((i - 1) \div TASK_ENTRY_SIZE) + 1)[((i - 1) % TASK_ENTRY_SIZE) + 1]]

\* a vitals packet with c task entries
SentVitals(c) == <<1, 232, 3, 0, 0, 0, 80, 0, 0, 160, 15, 0, 0, c>> \o SentEntries(c)

\* what may follow the packet in the buffer: nothing, or the start of the next
TailPool == {<<>>, <<1>>, <<1, 220, 5, 0, 0>>}

NoExtract == [packets |-> <<>>, rest |-> <<>>]

VExtract ==
    /\ v_pc = "extract"
    /\ v_res' = extract_packets(v_buffer)
    /\ v_pc' = "decode"
    /\ UNCHANGED <<v_buffer, v_sample>>
    /\ VFrame

VDecode ==
    /\ v_pc = "decode"
    /\ v_res.packets # <<>>
    /\ v_sample' = decode_vitals_packet(v_res.packets[1])
    /\ v_pc' = "done"
    /\ UNCHANGED <<v_buffer, v_res>>
    /\ VFrame

VNext == VExtract \/ VDecode

\* --------------------------------------------------------------------------
\* telemetry_manager.py: TelemetryAnalytics
\* --------------------------------------------------------------------------
ALERT_HEAP_LOW == 4096
ALERT_HEAP_SLOPE == -10
ALERT_STACK_HWM_LOW == 32
SUMMARY_INTERVAL_S == 300

\* datetime.now(timezone.utc).isoformat(): the clock reading is not modelled
IsoNow == "iso_now"

\* process_packet: vitals["received_at"] = iso_now
Stamped(vitals) ==
    [type            |-> vitals.type,
     timestamp_ticks |-> vitals.timestamp_ticks,
     free_heap       |-> vitals.free_heap,
     min_free_heap   |-> vitals.min_free_heap,
     task_count      |-> vitals.task_count,
     tasks           |-> vitals.tasks,
     received_at     |-> IsoNow]

\* a heap threshold that fires at the limit itself
HeapIsLowInclusive(vitals) == vitals.free_heap <= ALERT_HEAP_LOW
\* _check_alerts: the low heap test
HeapIsLow(vitals) == vitals.free_heap < ALERT_HEAP_LOW

\* _check_alerts: the low stack test of one task
StackIsLow(task) == task.stack_hwm_words < ALERT_STACK_HWM_LOW

HeapAlert(vitals) ==
    [type      |-> "alert",
     severity  |-> "critical",
     category  |-> "heap_low",
     timestamp |-> IsoNow,
     \* f"Free heap critically low: {vitals['free_heap']} bytes"
     message   |-> <<70, 114, 101, 101, 32, 104, 101, 97, 112, 32, 99, 114, 105, 116, 105,
                     99, 97, 108, 108, 121, 32, 108, 111, 119, 58, 32>>
                   \o DecStr(WideOfInt(vitals.free_heap))
                   \o <<32, 98, 121, 116, 101, 115>>,
     value     |-> vitals.free_heap,
     threshold |-> ALERT_HEAP_LOW]

StackAlert(task) ==
    [type        |-> "alert",
     severity    |-> "warning",
     category    |-> "stack_low",
     timestamp   |-> IsoNow,
     \* f"Task {task['task_number']} stack watermark low: {task['stack_hwm_words']} words"
     message     |-> <<84, 97, 115, 107, 32>> \o DecStr(WideOfInt(task.task_number))
                     \o <<32, 115, 116, 97, 99, 107, 32, 119, 97, 116, 101, 114, 109, 97, 114,
                          107, 32, 108, 111, 119, 58, 32>>
                     \o DecStr(WideOfInt(task.stack_hwm_words))
                     \o <<32, 119, 111, 114, 100, 115>>,
     task_number |-> task.task_number,
     value       |-> task.stack_hwm_words,
     threshold   |-> ALERT_STACK_HWM_LOW]

\* TelemetryAnalytics._check_alerts
check_alerts(vitals) ==
    LET low == SelectSeq(vitals.tasks, StackIsLow)
    IN (IF HeapIsLow(vitals) THEN <<HeapAlert(vitals)>> ELSE <<>>)
       \o [k \in 1..Len(low) |-> StackAlert(low[k])]

RECURSIVE SeqMin(_)
SeqMin(s) == IF Len(s) = 1 THEN s[1] ELSE Min(s[1], SeqMin(Tail(s)))

Max(a, b) == IF a > b THEN a ELSE b

\* _generate_summary: used_pct of one task
UsedPct(task) == Max(0, 100 - ((task.stack_hwm_words * 100) \div 256))

RECURSIVE PeakOfTasks(_, _)
PeakOfTasks(tasks, peak) ==
    IF tasks = <<>> THEN peak ELSE PeakOfTasks(Tail(tasks), Max(peak, UsedPct(tasks[1])))

RECURSIVE PeakStackPct(_, _)
PeakStackPct(samples, peak) ==
    IF samples = <<>> THEN peak
    ELSE PeakStackPct(Tail(samples), PeakOfTasks(samples[1].tasks, peak))

\* _generate_summary: heap_slope as the fraction num / den.  n * interval_s
\* is n * (SUMMARY_INTERVAL_S / n), taken as SUMMARY_INTERVAL_S.
HeapSlope(heap_values) ==
    IF Len(heap_values) >= 2
    THEN [num |-> heap_values[Len(heap_values)] - heap_values[1], den |-> SUMMARY_INTERVAL_S]
    ELSE [num |-> 0, den |-> SUMMARY_INTERVAL_S]

\* a status that looks at the heap's minimum first
SummaryStatusCautionFirst(heap_slope, heap_values) ==
    IF SeqMin(heap_values) < ALERT_HEAP_LOW * 2 THEN "heap_caution"
    ELSE IF heap_slope.num < ALERT_HEAP_SLOPE * heap_slope.den THEN "heap_leak_suspected"
    ELSE "nominal"
\* _generate_summary: status = "nominal"; if heap_slope < ALERT_HEAP_SLOPE ...
\* elif min(heap_values) < ALERT_HEAP_LOW * 2 ...
SummaryStatus(heap_slope, heap_values) ==
    IF heap_slope.num < ALERT_HEAP_SLOPE * heap_slope.den THEN "heap_leak_suspected"
    ELSE IF SeqMin(heap_values) < ALERT_HEAP_LOW * 2 THEN "heap_caution"
    ELSE "nominal"

\* TelemetryAnalytics._generate_summary on a non-empty self.samples
generate_summary(samples) ==
    LET heap_values == [k \in 1..Len(samples) |-> samples[k].free_heap]
        min_heap_values == [k \in 1..Len(samples) |-> samples[k].min_free_heap]
        heap_slope == HeapSlope(heap_values)
        status == SummaryStatus(heap_slope, heap_values)
    IN [type                     |-> "summary",
        timestamp                |-> IsoNow,
        status                   |-> status,
        sample_count             |-> Len(samples),
        heap_current             |-> heap_values[Len(heap_values)],
        heap_min                 |-> SeqMin(heap_values),
        heap_slope_bytes_per_sec |-> heap_slope,
        min_ever_free_heap       |-> SeqMin(min_heap_values),
        peak_stack_usage_pct     |-> PeakStackPct(samples, 0),
        task_count               |-> samples[Len(samples)].task_count]

\* TelemetryAnalytics.__init__, with the three files it appends to
AnalyticsInit ==
    [samples |-> <<>>, sample_count |-> 0, raw |-> <<>>, alerts |-> <<>>, summaries |-> <<>>]

\* a raw sink that is emptied together with self.samples
RawAfterDropOnSummary(self, vitals, due) ==
    IF due THEN <<>> ELSE Append(self.raw, Stamped(vitals))
\* process_packet, tier 1: the raw file after _write_jsonl(self.raw_path, vitals)
RawAfter(self, vitals, due) == Append(self.raw, Stamped(vitals))

\* TelemetryAnalytics.process_packet; due is whether SUMMARY_INTERVAL_S has
\* passed since self.last_summary_time.  Yields the object and the events.
process_packet(self, vitals, due) ==
    LET stamped == Stamped(vitals)
        samples == Append(self.samples, stamped)
        alerts == check_alerts(stamped)
        summary == generate_summary(samples)
    IN [self   |-> [samples      |-> IF due THEN <<>> ELSE samples,
                    sample_count |-> self.sample_count + 1,
                    raw          |-> RawAfter(self, vitals, due),
                    alerts       |-> self.alerts \o alerts,
                    summaries    |-> IF due THEN Append(self.summaries, summary)
                                     ELSE self.summaries],
        events |-> IF due THEN Append(alerts, summary) ELSE alerts]

\* --------------------------------------------------------------------------
\* telemetry_manager.py: main, from the connected socket on
\* --------------------------------------------------------------------------
\* what the target and the line put on RTT channel 2: vitals packets and noise
VIT_at_limit == <<1, 232, 3, 0, 0, 0, 16, 0, 0, 160, 15, 0, 0, 0>>
VIT_below == <<1, 220, 5, 0, 0, 255, 15, 0, 0, 160, 15, 0, 0, 1,
               3, 2, 1, 31, 0, 10, 244, 1>>
VIT_two_tasks == <<1, 208, 7, 0, 0, 32, 78, 0, 0, 100, 0, 0, 0, 2,
                   5, 0, 4, 32, 0, 55, 7, 0,
                   6, 9, 2, 10, 0, 1, 0, 0>>
GARB_short == <<255, 0>>
GARB_long == <<2, 0, 255, 85, 170, 3, 0, 0, 0, 0, 0, 0, 0, 7, 9>>

SegmentPool == {VIT_at_limit, VIT_below, VIT_two_tasks, GARB_short, GARB_long}

MaxSegments == 3

\* how the far end behaves once everything was delivered
PeerEnds == {"silent", "eof", "reset"}

\* sock.recv(4096) may return any non-empty prefix; two sizes are sampled
RecvSizes(wire) == {1, Min(Len(wire), 4096)}

\* main: read_packets returns data; buffer += data; extract_packets
TRecv ==
    /\ t_pc = "recv"
    /\ t_wire # <<>>
    /\ \E n \in RecvSizes(t_wire) :
         LET data == SubSeq(t_wire, 1, n)
             r == extract_packets(t_buffer \o data)
         IN /\ t_wire' = SubSeq(t_wire, n + 1, Len(t_wire))
            /\ t_buffer' = r.rest
            /\ t_packets' = r.packets
            /\ t_got' = t_got \o r.packets
            /\ t_pc' = IF r.packets = <<>> THEN "recv" ELSE "process"
    /\ UNCHANGED <<t_segs, t_peer, t_total_packets, t_an, t_events, t_stderr>>
    /\ TFrame

\* read_packets: socket.timeout gives b"", main continues
TRecvTimeout ==
    /\ t_pc = "recv"
    /\ UNCHANGED tvars
    /\ TFrame

\* read_packets: the peer has closed, recv gives b"", main continues
TRecvEof ==
    /\ t_pc = "recv"
    /\ t_wire = <<>>
    /\ t_peer = "eof"
    /\ UNCHANGED tvars
    /\ TFrame

\* read_packets re-raises ConnectionResetError; main prints and closes
TRecvReset ==
    /\ t_pc = "recv"
    /\ t_wire = <<>>
    /\ t_peer = "reset"
    /\ t_stderr' = Append(t_stderr, [text |-> "Connection reset by peer", count |-> <<>>])
    /\ t_pc' = "closed"
    /\ UNCHANGED <<t_segs, t_wire, t_peer, t_buffer, t_packets, t_got, t_total_packets,
                   t_an, t_events>>
    /\ TFrame

\* main: one iteration of  for pkt_data in packets
TProcess ==
    /\ t_pc = "process"
    /\ LET vitals == decode_vitals_packet(Head(t_packets))
       IN IF vitals = <<>>
          THEN UNCHANGED <<t_total_packets, t_an, t_events>>
          ELSE \E due \in BOOLEAN :
                 LET r == process_packet(t_an, vitals[1], due)
                 IN /\ t_total_packets' = t_total_packets + 1
                    /\ t_an' = r.self
                    /\ t_events' = r.events
    /\ t_packets' = Tail(t_packets)
    /\ t_pc' = IF Tail(t_packets) = <<>> THEN "recv" ELSE "process"
    /\ UNCHANGED <<t_segs, t_wire, t_peer, t_buffer, t_got, t_stderr>>
    /\ TFrame

\* main: KeyboardInterrupt
TInterrupt ==
    /\ t_pc \in {"recv", "process"}
    /\ t_stderr' = Append(t_stderr, [text |-> "Stopped. packets processed.",
                                      count |-> <<t_total_packets>>])
    /\ t_pc' = "closed"
    /\ UNCHANGED <<t_segs, t_wire, t_peer, t_buffer, t_packets, t_got, t_total_packets,
                   t_an, t_events>>
    /\ TFrame

TNext == TRecv \/ TRecvTimeout \/ TRecvEof \/ TRecvReset \/ TProcess \/ TInterrupt

\* --------------------------------------------------------------------------
\* log_decoder.py: connect_with_retry;  telemetry_manager.py: connect_rtt
\* --------------------------------------------------------------------------
\* connect_with_retry: the cap of the delay, in seconds
DELAY_CAP == 30
\* connect_rtt: range(10)
RTT_ATTEMPTS == 10
\* connect_rtt: time.sleep(2)
RTT_SLEEP == 2

\* the largest max_retries tried
MaxRetries == 7

\* base delays tried, in seconds: the default, and one below and one above the cap
BaseDelays == {1, 20, 40}

\* a delay that doubles without a cap
NextDelayUncapped(delay) == delay * 2
\* connect_with_retry: delay = min(delay * 2, 30.0)
NextDelay(delay) == Min(delay * 2, DELAY_CAP)

\* connect_with_retry: one iteration of the for loop; ok is whether the server accepts
LAttempt ==
    /\ n_tool = "log"
    /\ n_pc = "loop"
    /\ n_attempts < n_max_retries
    /\ n_attempts' = n_attempts + 1
    /\ \E ok \in BOOLEAN :
         IF ok
         THEN n_pc' = "connected" /\ UNCHANGED <<n_delay, n_slept>>
         ELSE /\ n_pc' = "loop"
              /\ IF n_attempts < n_max_retries - 1
                 THEN n_slept' = Append(n_slept, n_delay) /\ n_delay' = NextDelay(n_delay)
                 ELSE UNCHANGED <<n_delay, n_slept>>
    /\ UNCHANGED <<n_tool, n_max_retries, n_base_delay>>
    /\ NFrame

\* connect_with_retry: the loop is over, FATAL is printed, sys.exit(1)
LGiveUp ==
    /\ n_tool = "log"
    /\ n_pc = "loop"
    /\ ~(n_attempts < n_max_retries)
    /\ n_pc' = "exit1"
    /\ UNCHANGED <<n_tool, n_max_retries, n_base_delay, n_delay, n_attempts, n_slept>>
    /\ NFrame

\* connect_rtt: one iteration of the for loop
RAttempt ==
    /\ n_tool = "telemetry"
    /\ n_pc = "loop"
    /\ n_attempts < RTT_ATTEMPTS
    /\ n_attempts' = n_attempts + 1
    /\ \E ok \in BOOLEAN :
         IF ok
         THEN n_pc' = "connected" /\ UNCHANGED n_slept
         ELSE n_pc' = "loop" /\ n_slept' = Append(n_slept, RTT_SLEEP)
    /\ UNCHANGED <<n_tool, n_max_retries, n_base_delay, n_delay>>
    /\ NFrame

\* connect_rtt: the loop is over, ConnectionError is raised and ends main
RGiveUp ==
    /\ n_tool = "telemetry"
    /\ n_pc = "loop"
    /\ ~(n_attempts < RTT_ATTEMPTS)
    /\ n_pc' = "raised"
    /\ UNCHANGED <<n_tool, n_max_retries, n_base_delay, n_delay, n_attempts, n_slept>>
    /\ NFrame

NNext == LAttempt \/ LGiveUp \/ RAttempt \/ RGiveUp

\* --------------------------------------------------------------------------
\* health_dashboard.py: RunningRegression, TaskStats
\* --------------------------------------------------------------------------
\* Times are counted in half seconds, the period of the vitals packets, so
\* that the sums stay integers; the code holds them as floats in seconds.
\* A slope is the fraction num / den in units per second, den > 0.
ALERT_STACK_HWM_MIN == 64

Abs(a) == IF a < 0 THEN 0 - a ELSE a

\* RunningRegression.__init__
RegInit == [n |-> 0, sum_x |-> 0, sum_y |-> 0, sum_xy |-> 0, sum_x2 |-> 0]

\* RunningRegression.add
RegAdd(r, x, y) ==
    [n |-> r.n + 1, sum_x |-> r.sum_x + x, sum_y |-> r.sum_y + y,
     sum_xy |-> r.sum_xy + x * y, sum_x2 |-> r.sum_x2 + x * x]

\* RunningRegression.slope.  With x in half seconds the denominator of the code
\* is a quarter of denom and its numerator half of the one below, and
\* abs(denom) < 1e-10 comes to denom = 0.
RegSlope(r) ==
    LET denom == r.n * r.sum_x2 - r.sum_x * r.sum_x
    IN  IF r.n < 2 \/ denom = 0 THEN [num |-> 0, den |-> 1]
        ELSE [num |-> 2 * (r.n * r.sum_xy - r.sum_x * r.sum_y), den |-> denom]

\* a classification without the band around zero
CpuTrendNoBand(slope) == IF slope.num > 0 THEN "rising" ELSE "falling"
\* TaskStats.summary: the classification of cpu_slope; abs(slope) < 0.01
\* is 100 * abs(num) < den
CpuTrend(slope) ==
    IF 100 * Abs(slope.num) < slope.den THEN "stable"
    ELSE IF slope.num > 0 THEN "rising"
    ELSE "falling"

\* TaskStats.__init__
StatsInit ==
    [task_number |-> 1, name |-> "task_1",
     cpu_pcts |-> <<>>, stack_hwms |-> <<>>, cpu_regression |-> RegInit]

\* TaskStats.add_sample
add_sample(self, cpu_pct, stack_hwm, t) ==
    [task_number |-> self.task_number, name |-> self.name,
     cpu_pcts |-> Append(self.cpu_pcts, cpu_pct),
     stack_hwms |-> Append(self.stack_hwms, stack_hwm),
     cpu_regression |-> RegAdd(self.cpu_regression, t, cpu_pct)]

RECURSIVE SeqMax(_)
SeqMax(q) == IF Len(q) = 1 THEN q[1] ELSE Max(q[1], SeqMax(Tail(q)))

RECURSIVE SeqSum(_)
SeqSum(q) == IF q = <<>> THEN 0 ELSE q[1] + SeqSum(Tail(q))

\* a classification that counts the floor itself as below it
StackStatusAtFloor(stack_hwm_min) ==
    IF stack_hwm_min <= ALERT_STACK_HWM_MIN THEN "critical"
    ELSE IF stack_hwm_min <= ALERT_STACK_HWM_MIN * 2 THEN "warning"
    ELSE "healthy"
\* TaskStats.summary: the classification of stack_hwm_min
StackStatus(stack_hwm_min) ==
    IF stack_hwm_min < ALERT_STACK_HWM_MIN THEN "critical"
    ELSE IF stack_hwm_min < ALERT_STACK_HWM_MIN * 2 THEN "warning"
    ELSE "healthy"

\* TaskStats.summary on a non-empty cpu_pcts; cpu_pct_avg is left as the
\* fraction sum / n, before round(.., 1)
TaskSummary(self) ==
    LET cpu_slope == RegSlope(self.cpu_regression)
        stack_hwm_min == SeqMin(self.stack_hwms)
    IN [task_number   |-> self.task_number,
        name          |-> self.name,
        cpu_pct_avg   |-> [num |-> SeqSum(self.cpu_pcts), den |-> Len(self.cpu_pcts)],
        cpu_pct_max   |-> SeqMax(self.cpu_pcts),
        cpu_trend     |-> CpuTrend(cpu_slope),
        stack_hwm_min |-> stack_hwm_min,
        stack_status  |-> StackStatus(stack_hwm_min)]

ALERT_CPU_PCT == 80
ALERT_HEAP_MIN == 8192
\* ALERT_HEAP_SLOPE of health_dashboard.py, bytes per second
DASH_ALERT_HEAP_SLOPE == -1

RECURSIVE GCD(_, _)
GCD(a, b) == IF b = 0 THEN a ELSE GCD(b, a % b)

\* a fraction with den > 0 in lowest terms
Reduced(f) ==
    LET g == GCD(Abs(f.num), f.den)
    IN  [num |-> f.num \div g, den |-> f.den \div g]

\* round(): n / d to the nearest integer, ties to the even one (d > 0)
RoundHalfEven(n, d) ==
    LET q == n \div d
        r == n - q * d
    IN  IF 2 * r < d THEN q
        ELSE IF 2 * r > d THEN q + 1
        ELSE IF q % 2 = 0 THEN q ELSE q + 1

\* SystemStats.__init__; heap_min_ever = <<>> is float("inf")
SystemStatsInit == [heap_values |-> <<>>, heap_min_ever |-> <<>>, heap_regression |-> RegInit]

\* SystemStats.add_sample
system_add_sample(self, free_heap, min_free_heap, t) ==
    [heap_values |-> Append(self.heap_values, free_heap),
     heap_min_ever |-> IF self.heap_min_ever = <<>> THEN <<min_free_heap>>
                       ELSE <<Min(min_free_heap, self.heap_min_ever[1])>>,
     heap_regression |-> RegAdd(self.heap_regression, t, free_heap)]

\* SystemStats.summary: <<>> is None; heap_slope_bytes_per_min, rounded to
\* one decimal, is held in tenths of a byte per minute
SystemSummary(self) ==
    IF self.heap_values = <<>> THEN <<>>
    ELSE LET current == self.heap_values[Len(self.heap_values)]
             slope == Reduced(RegSlope(self.heap_regression))
         IN <<[heap_current |-> current,
               heap_min_ever |-> IF self.heap_min_ever = <<>> THEN 0 ELSE self.heap_min_ever[1],
               heap_slope_bytes_per_min |-> RoundHalfEven(600 * slope.num, slope.den),
               heap_status |-> IF slope.num < DASH_ALERT_HEAP_SLOPE * slope.den THEN "leaking"
                               ELSE IF current < ALERT_HEAP_MIN THEN "low"
                               ELSE "stable"]>>

\* generate_alerts: the alerts of the system summary.  A message is its
\* format string with the values that fill it; value of heap_leak is
\* round(slope_per_sec, 1) in tenths of a byte per second.
SystemAlerts(system_summary) ==
    IF system_summary = <<>> THEN <<>>
    ELSE LET sy == system_summary[1]
         IN (IF sy.heap_slope_bytes_per_min < DASH_ALERT_HEAP_SLOPE * 600
             THEN <<[type      |-> "heap_leak",
                     severity  |-> "warning",
                     message   |-> [text |-> "Free heap decreasing at {:.1f} bytes/sec - possible memory leak",
                                    args |-> <<RoundHalfEven(sy.heap_slope_bytes_per_min, 60)>>],
                     value     |-> RoundHalfEven(sy.heap_slope_bytes_per_min, 60),
                     threshold |-> DASH_ALERT_HEAP_SLOPE]>>
             ELSE <<>>)
            \o (IF sy.heap_current < ALERT_HEAP_MIN
                THEN <<[type      |-> "heap_low",
                        severity  |-> "critical",
                        message   |-> [text |-> "Free heap is {} bytes (threshold: {})",
                                       args |-> <<sy.heap_current, ALERT_HEAP_MIN>>],
                        value     |-> sy.heap_current,
                        threshold |-> ALERT_HEAP_MIN]>>
                ELSE <<>>)

\* generate_alerts: the alerts of one task summary
TaskAlerts(ts) ==
    (IF ts.cpu_pct_max > ALERT_CPU_PCT
     THEN <<[type      |-> "cpu_high",
             severity  |-> "warning",
             task      |-> ts.name,
             message   |-> [text |-> "Task '{}' CPU max {}% exceeds {}% threshold",
                            args |-> <<ts.cpu_pct_max, ALERT_CPU_PCT>>],
             value     |-> ts.cpu_pct_max,
             threshold |-> ALERT_CPU_PCT]>>
     ELSE <<>>)
    \o (IF ts.stack_hwm_min < ALERT_STACK_HWM_MIN
        THEN <<[type      |-> "stack_low",
                severity  |-> "critical",
                task      |-> ts.name,
                message   |-> [text |-> "Task '{}' stack HWM {} words below {} threshold",
                               args |-> <<ts.stack_hwm_min, ALERT_STACK_HWM_MIN>>],
                value     |-> ts.stack_hwm_min,
                threshold |-> ALERT_STACK_HWM_MIN]>>
        ELSE <<>>)

\* generate_alerts, for the summaries of at most one task
generate_alerts(system_summary, task_summaries) ==
    SystemAlerts(system_summary)
    \o (IF task_summaries = <<>> THEN <<>> ELSE TaskAlerts(task_summaries[1]))

\* an alert-only mode that suppresses nothing
SuppressedNever(alert_only, alerts) == FALSE
\* _emit_summary: if alert_only and not alerts: return
Suppressed(alert_only, alerts) == alert_only /\ alerts = <<>>

\* _emit_summary: <<>> when nothing is printed, else <<output>>; elapsed is
\* in half seconds
emit_summary(system_stats, task_stats, sample_count, elapsed, alert_only) ==
    LET system_summary == SystemSummary(system_stats)
        task_summaries == IF task_stats.cpu_pcts = <<>> THEN <<>>
                          ELSE <<TaskSummary(task_stats)>>
        alerts == generate_alerts(system_summary, task_summaries)
        has_critical == \E i \in 1..Len(alerts) : alerts[i].severity = "critical"
        has_warning == \E i \in 1..Len(alerts) : alerts[i].severity = "warning"
    IN  IF Suppressed(alert_only, alerts) THEN <<>>
        ELSE <<[status |-> IF has_critical THEN "critical"
                           ELSE IF has_warning THEN "alert" ELSE "nominal",
                tool |-> "health_dashboard.py",
                analysis_window |-> elapsed,
                samples |-> sample_count,
                system |-> system_summary,
                tasks |-> task_summaries,
                alerts |-> alerts]>>

\* the most samples fed to one task
MaxSamples == 10

\* n samples of one task: cpu_pct goes from start in steps of step, the
\* times from 0 in steps of dt half seconds, the stack watermark sinks from
\* 100 words by 5 a sample
Series(start, step, dt, n) ==
    [k \in 1..n |-> <<(k - 1) * dt, start + (k - 1) * step, 100 - 5 * (k - 1)>>]

\* the same samples with every stack watermark raised by lift words
Lifted(series, lift) ==
    [k \in 1..Len(series) |-> <<series[k][1], series[k][2], series[k][3] + lift>>]

\* the lifts tried: the watermark sinks from 100, to the floor of 64 by the
\* tenth sample, from twice the floor, and from 200
StackLifts == {0, 9, 28, 100}

\* (start, step) of the series tried: 10% to 55% and back, slow drifts, flat,
\* and a rise past ALERT_CPU_PCT
Ramps == {<<10, 5>>, <<55, 0 - 5>>, <<10, 1>>, <<55, 0 - 1>>, <<10, 0>>, <<55, 0>>, <<55, 5>>}

\* <<first value, step>> of the free heap tried: enough, low, leaking,
\* exhausted after the first sample, exhausted from the start
HeapProfiles == {<<8400, 0>>, <<8000, 0>>, <<8400, 0 - 100>>, <<8400, 0 - 8400>>, <<0, 0>>}

\* spacings tried, in half seconds: none (a file read at once), 0.5 s, 200 s
Spacings == {0, 1, 400}

\* the free heap of sample k, never below 0; min_free_heap is taken equal to it
HeapAt(k) == Max(0, h_heap[1] + (k - 1) * h_heap[2])

\* durations tried, in half seconds: DEFAULT_DURATION and an hour
Durations == {600, 7200}

\* summary intervals tried, in tenths of a second: 0, 0.3 s, 1 s, 1.5 s
Intervals == {0, 3, 10, 15}

\* no call of process_telemetry
ArgsIdle == [duration |-> 0, summary_interval |-> 0, alert_only |-> FALSE]

\* process_telemetry: max(1, int(summary_interval / 0.5))
EmitEvery(summary_interval) == Max(1, (2 * summary_interval) \div 10)

\* a cadence that runs also with an interval of 0
PeriodicDueAnyInterval(summary_interval, sample_count) ==
    sample_count % EmitEvery(summary_interval) = 0
\* process_telemetry: summary_interval > 0 and sample_count % max(1, ...) == 0
PeriodicDue(summary_interval, sample_count) ==
    summary_interval > 0 /\ sample_count % EmitEvery(summary_interval) = 0

\* _emit_summary: whether it got past 'if alert_only and not alerts: return'
PrintedAfter(out, alert_only) == out # <<>>

\* h_calls after one more _emit_summary call
CallsWith(calls, sample_count, out, alert_only) ==
    Append(calls, [samples |-> sample_count, printed |-> PrintedAfter(out, alert_only)])

\* process_telemetry, one line of input: the break when elapsed > duration is
\* the guard; system_stats.add_sample when free_heap > 0,
\* task_stats_map[task_num].add_sample(cpu_pct, stack_hwm, t), and the
\* periodic _emit_summary
HAddSample ==
    /\ h_pc = "feeding"
    /\ Len(h_stats.cpu_pcts) < Len(h_series)
    /\ LET k == Len(h_stats.cpu_pcts) + 1
           smp == h_series[k]
           stats == add_sample(h_stats, smp[2], smp[3], smp[1])
           system == IF HeapAt(k) > 0
                     THEN system_add_sample(h_system, HeapAt(k), HeapAt(k), smp[1])
                     ELSE h_system
           out == emit_summary(system, stats, k, smp[1], h_args.alert_only)
       IN  /\ ~(smp[1] > h_args.duration)
           /\ h_stats' = stats
           /\ h_system' = system
           /\ IF PeriodicDue(h_args.summary_interval, k)
              THEN /\ h_output' = out
                   /\ h_calls' = CallsWith(h_calls, k, out, h_args.alert_only)
              ELSE UNCHANGED <<h_output, h_calls>>
    /\ UNCHANGED <<h_series, h_summary, h_heap, h_args, h_pc>>
    /\ HFrame

\* process_telemetry: the final _emit_summary, with ts.summary() of the task;
\* the input may end behind any sample
HSummary ==
    /\ h_pc = "feeding"
    /\ h_stats.cpu_pcts # <<>>
    /\ h_summary' = <<TaskSummary(h_stats)>>
    /\ LET out == emit_summary(h_system, h_stats, Len(h_stats.cpu_pcts),
                               h_series[Len(h_stats.cpu_pcts)][1], h_args.alert_only)
       IN  /\ h_output' = out
           /\ h_calls' = CallsWith(h_calls, Len(h_stats.cpu_pcts), out, h_args.alert_only)
    /\ h_pc' = "reported"
    /\ UNCHANGED <<h_series, h_stats, h_heap, h_system, h_args>>
    /\ HFrame

HNext == HAddSample \/ HSummary

\* --------------------------------------------------------------------------
\* crash_decoder.py: resolve_address, decode_crash
\* --------------------------------------------------------------------------
\* 32-bit fields (magic, pc, lr, xpsr) are wide naturals <<high 16, low 16>>.
\* A text is its format string with the values that fill it.
MAGIC_HARDFAULT == <<57005, 64017>>      \* 0xDEADFA11
MAGIC_STACK_OVERFLOW == <<57005, 22444>> \* 0xDEAD57AC
MAGIC_MALLOC_FAILURE == <<57005, 47824>> \* 0xDEADBAD0
MAGIC_WATCHDOG == <<57005, 45324>>       \* 0xDEADB10C

Text(t) == [text |-> t, args |-> <<>>]

\* f"0x{w:08X}" for a 32-bit w
HexUp8(w) ==
    LET h == HexStr(w, TRUE)
    IN  <<48, 120>> \o [i \in 1..(8 - Len(h)) |-> 48] \o h

\* MAGIC_NAMES.get(magic, f"Unknown (0x{magic:08X})")
CrashType(magic) ==
    IF magic = MAGIC_HARDFAULT THEN Text("HardFault")
    ELSE IF magic = MAGIC_STACK_OVERFLOW THEN Text("Stack Overflow")
    ELSE IF magic = MAGIC_MALLOC_FAILURE THEN Text("Malloc Failure")
    ELSE IF magic = MAGIC_WATCHDOG THEN Text("Watchdog Timeout")
    ELSE [text |-> "Unknown ({})", args |-> <<HexUp8(magic)>>]

\* what a run of addr2line can come to: two or more lines of output, fewer,
\* subprocess.TimeoutExpired, FileNotFoundError, any other Exception
Outcomes == {"lines", "short", "timeout", "missing", "error"}

\* resolve_address with an address test that never holds
IsZeroNever(addr) == FALSE
\* resolve_address: addr == 0
IsZero(addr) == addr = <<0, 0>>

\* a handler list without the final except Exception
CaughtNamedOnly(outcome) == outcome \in {"missing", "timeout"}
\* resolve_address: the outcomes its except clauses take
Caught(outcome) == outcome \in {"missing", "timeout", "error"}

\* resolve_address: <<>> when the exception leaves it, else <<info>>; outcome
\* is what the run of addr2line comes to, should there be one
resolve_address(addr, outcome) ==
    IF IsZero(addr) THEN <<[function |-> Text("(none)"), location |-> Text("N/A")]>>
    ELSE IF outcome = "lines"
    THEN <<[function |-> [text |-> "lines[0]", args |-> <<addr>>],
            location |-> [text |-> "lines[1]", args |-> <<addr>>]]>>
    ELSE IF outcome = "short" THEN <<[function |-> Text("??"), location |-> Text("??:0")]>>
    ELSE IF ~Caught(outcome) THEN <<>>
    ELSE IF outcome = "missing"
    THEN <<[function |-> [text |-> "error: {} not found", args |-> <<"addr2line_path">>],
            location |-> Text("??:0")]>>
    ELSE IF outcome = "timeout"
    THEN <<[function |-> Text("error: addr2line timeout"), location |-> Text("??:0")]>>
    ELSE <<[function |-> [text |-> "error: {}", args |-> <<"e">>], location |-> Text("??:0")]>>

\* decode_crash: the fields every report starts with
ReportHead(crash) ==
    [crash_type  |-> CrashType(crash.magic),
     magic       |-> HexUp8(crash.magic),
     core_id     |-> crash.core_id,
     task_number |-> crash.task_number,
     xpsr        |-> HexUp8(crash.xpsr)]

Resolved(addr, info) ==
    [address |-> Text(HexUp8(addr)), function |-> info.function, location |-> info.location]

NotApplicable == [address |-> Text("N/A"), function |-> Text("N/A"), location |-> Text("N/A")]

\* decode_crash: the branches that call resolve_address
ResolvesAddresses(magic) == magic \notin {MAGIC_MALLOC_FAILURE, MAGIC_WATCHDOG}

\* decode_crash: the report of a crash whose pc and lr were resolved
ResolvedReport(crash, pc_info, lr_info) ==
    [f \in DOMAIN ReportHead(crash) \cup {"pc", "lr"} |->
        IF f = "pc" THEN Resolved(crash.pc, pc_info)
        ELSE IF f = "lr" THEN Resolved(crash.lr, lr_info)
        ELSE ReportHead(crash)[f]]

\* a malloc report that takes the heap from the lr field
FreeHeapFromLr(crash) == crash.lr
\* decode_crash: result["free_heap_at_failure"]
FreeHeapAtFailure(crash) == crash.pc

\* decode_crash: the report of a malloc failure
MallocReport(crash) ==
    [f \in DOMAIN ReportHead(crash) \cup {"free_heap_at_failure", "pc", "lr"} |->
        IF f = "free_heap_at_failure" THEN FreeHeapAtFailure(crash)
        ELSE IF f \in {"pc", "lr"} THEN NotApplicable
        ELSE ReportHead(crash)[f]]

\* decode_crash: the report of a watchdog timeout
WatchdogReport(crash) ==
    [f \in DOMAIN ReportHead(crash)
            \cup {"missing_task_bits", "tick_count_at_timeout", "pc", "lr"} |->
        IF f = "missing_task_bits" THEN HexUp8(crash.pc)
        ELSE IF f = "tick_count_at_timeout" THEN crash.lr
        ELSE IF f \in {"pc", "lr"} THEN NotApplicable
        ELSE ReportHead(crash)[f]]

\* the magics tried: the four known ones and two others
MagicPool ==
    {MAGIC_HARDFAULT, MAGIC_STACK_OVERFLOW, MAGIC_MALLOC_FAILURE, MAGIC_WATCHDOG,
     <<57005, 48879>>, <<0, 0>>}

\* the values tried for pc and lr: zero, a flash address, a RAM address
AddressPool == {<<0, 0>>, <<4096, 512>>, <<8192, 4>>}

\* the most cores a crash record names
MaxCores == 2

\* the symbolizer is run on addr unless addr == 0
CallsAfter(calls, addr, outcome) ==
    IF IsZero(addr) THEN calls ELSE Append(calls, [addr |-> addr, outcome |-> outcome])

\* decode_crash: pc_info = resolve_address(crash["pc"], ..)
XResolvePc ==
    /\ x_pc = "start"
    /\ ResolvesAddresses(x_crash.magic)
    /\ \E outcome \in Outcomes :
          LET info == resolve_address(x_crash.pc, outcome)
          IN  /\ x_pc_info' = info
              /\ x_pc' = IF info = <<>> THEN "raised" ELSE "lr"
              /\ x_calls' = CallsAfter(x_calls, x_crash.pc, outcome)
    /\ UNCHANGED <<x_crash, x_result>>
    /\ XFrame

\* decode_crash: lr_info = resolve_address(crash["lr"], ..) and the report
XResolveLr ==
    /\ x_pc = "lr"
    /\ \E outcome \in Outcomes :
          LET info == resolve_address(x_crash.lr, outcome)
          IN  /\ IF info = <<>>
                 THEN x_pc' = "raised" /\ UNCHANGED x_result
                 ELSE /\ x_result' = <<ResolvedReport(x_crash, x_pc_info[1], info[1])>>
                      /\ x_pc' = "done"
              /\ x_calls' = CallsAfter(x_calls, x_crash.lr, outcome)
    /\ UNCHANGED <<x_crash, x_pc_info>>
    /\ XFrame

\* decode_crash: elif magic == 0xDEADBAD0
XMalloc ==
    /\ x_pc = "start"
    /\ x_crash.magic = MAGIC_MALLOC_FAILURE
    /\ x_result' = <<MallocReport(x_crash)>>
    /\ x_pc' = "done"
    /\ UNCHANGED <<x_crash, x_calls, x_pc_info>>
    /\ XFrame

\* decode_crash: elif magic == 0xDEADB10C
XWatchdog ==
    /\ x_pc = "start"
    /\ x_crash.magic = MAGIC_WATCHDOG
    /\ x_result' = <<WatchdogReport(x_crash)>>
    /\ x_pc' = "done"
    /\ UNCHANGED <<x_crash, x_calls, x_pc_info>>
    /\ XFrame

XNext == XResolvePc \/ XResolveLr \/ XMalloc \/ XWatchdog

\* --------------------------------------------------------------------------
\* telemetry_manager.py: TelemetryAnalytics on its wall clock
\* --------------------------------------------------------------------------
\* a clock that is never reset
LastSummaryTimeKept(last_summary_time, now, due) == last_summary_time
\* process_packet: self.last_summary_time = now, inside the if
LastSummaryTimeAfter(last_summary_time, now, due) == IF due THEN now ELSE last_summary_time

\* process_packet with now = time.monotonic()
process_packet_at(self, last_summary_time, vitals, now) ==
    LET due == now - last_summary_time >= SUMMARY_INTERVAL_S
        r == process_packet(self, vitals, due)
    IN  [self |-> r.self, events |-> r.events,
         last_summary_time |-> LastSummaryTimeAfter(last_summary_time, now, due)]

\* the seconds that pass between two looks at the clock
Gaps == {149, 151}

\* the last second of the clock
MaxClock == 600

\* the most process_packet calls
MaxCalls == 4

\* the samples fed: one that raises alerts, one that raises one stack alert
\* and two with the free heap at the caution limit and 3000 bytes above it
ClockSamples ==
    {decode_vitals_packet(VIT_below)[1], decode_vitals_packet(VIT_two_tasks)[1],
     [decode_vitals_packet(VIT_two_tasks)[1] EXCEPT !.free_heap = 8192],
     [decode_vitals_packet(VIT_two_tasks)[1] EXCEPT !.free_heap = 11192]}

\* time passes
STick ==
    /\ \E gap \in Gaps :
          /\ s_now + gap <= MaxClock
          /\ s_now' = s_now + gap
    /\ UNCHANGED <<s_an, s_last_summary_time, s_events, s_epoch>>
    /\ SFrame

\* analytics.process_packet(vitals)
SProcess ==
    /\ s_an.sample_count < MaxCalls
    /\ \E vitals \in ClockSamples :
          LET r == process_packet_at(s_an, s_last_summary_time, vitals, s_now)
          IN  /\ s_an' = r.self
              /\ s_last_summary_time' = r.last_summary_time
              /\ s_events' = r.events
              /\ s_epoch' = IF \E i \in 1..Len(r.events) : r.events[i].type = "summary"
                            THEN s_now ELSE s_epoch
    /\ UNCHANGED s_now
    /\ SFrame

SNext == STick \/ SProcess

\* --------------------------------------------------------------------------
\* telemetry_manager.py: main's buffer over any split of any stream
\* --------------------------------------------------------------------------
\* noise that holds the type byte, and a lone type byte
NOISE_sync == <<7, 1, 2>>
NOISE_type == <<1>>

\* what the stream is made of: whole packets and noise, cut anywhere
PiecePool == {VIT_at_limit, VIT_below, GARB_short, NOISE_sync, NOISE_type}

\* the most pieces in a stream
MaxPieces == 3

\* a buffer that forgets what the last call left over
BufferFresh(buffer, data) == data
\* main: buffer += data
BufferPlus(buffer, data) == buffer \o data

\* main: data = read_packets(sock), any number of bytes; buffer += data;
\* packets, buffer = extract_packets(buffer)
EFeed ==
    /\ e_pos < Len(e_stream)
    /\ \E n \in 1..(Len(e_stream) - e_pos) :
          LET data == SubSeq(e_stream, e_pos + 1, e_pos + n)
              arg == BufferPlus(e_buffer, data)
              r == extract_packets(arg)
          IN  /\ e_pos' = e_pos + n
              /\ e_arg' = <<arg>>
              /\ e_res' = r
              /\ e_buffer' = r.rest
              /\ e_got' = e_got \o r.packets
    /\ UNCHANGED e_stream
    /\ EFrame

\* main: read_packets returned b"", continue
ETimeout ==
    /\ UNCHANGED evars
    /\ EFrame

ENext == EFeed \/ ETimeout

\* --------------------------------------------------------------------------
\* telemetry_manager.py --mode raw piped into health_dashboard.py
\* --------------------------------------------------------------------------
\* a vitals packet of one task (3) with 300 words of stack left
VIT_roomy == <<1, 184, 11, 0, 0, 32, 78, 0, 0, 128, 62, 0, 0, 1,
               3, 2, 1, 44, 1, 20, 5, 0>>

\* the packets tried
PipePool == {VIT_at_limit, VIT_below, VIT_two_tasks, VIT_roomy}

\* the most packets sent
MaxLines == 3

\* dict.get(key, default)
Get(dict, key, default) == IF key \in DOMAIN dict THEN dict[key] ELSE default

\* DEFAULT_TASK_MAP, which main passes as task_map
TaskName(task_num) ==
    CASE task_num = 1 -> "idle0"
      [] task_num = 2 -> "idle1"
      [] task_num = 3 -> "blinky"
      [] task_num = 4 -> "tmr_svc"
      [] task_num = 5 -> "supervisor"
      [] task_num = 6 -> "wdg_monitor"
      [] OTHER -> "task_n"

\* the place of task_num in task_stats_map, 0 if it is not there
PlaceOf(task_stats_map, task_num) ==
    IF \E i \in 1..Len(task_stats_map) : task_stats_map[i].task_number = task_num
    THEN CHOOSE i \in 1..Len(task_stats_map) : task_stats_map[i].task_number = task_num
    ELSE 0

\* process_telemetry: the body of 'for task in tasks' for one task
FeedTask(task_stats_map, task, t) ==
    LET task_num == Get(task, "task_number", 0)
        cpu_pct == Get(task, "cpu_pct", 0)
        stack_hwm == Get(task, "stack_hwm", 0)
        place == PlaceOf(task_stats_map, task_num)
        fresh == [StatsInit EXCEPT !.task_number = task_num, !.name = TaskName(task_num)]
    IN  IF place = 0
        THEN Append(task_stats_map, add_sample(fresh, cpu_pct, stack_hwm, t))
        ELSE [task_stats_map EXCEPT ![place] = add_sample(@, cpu_pct, stack_hwm, t)]

\* process_telemetry: 'for task in tasks', from the k-th task on
RECURSIVE FeedTasks(_, _, _, _)
FeedTasks(task_stats_map, tasks, k, t) ==
    IF k > Len(tasks) THEN task_stats_map
    ELSE FeedTasks(FeedTask(task_stats_map, tasks[k], t), tasks, k + 1, t)

\* sorted(task_stats_map.values(), key=lambda x: x.task_number), with
\* ts.summary() of each
RECURSIVE SortedSummaries(_)
SortedSummaries(task_stats_map) ==
    IF task_stats_map = <<>> THEN <<>>
    ELSE LET least == CHOOSE i \in 1..Len(task_stats_map) :
                         \A j \in 1..Len(task_stats_map) :
                            task_stats_map[i].task_number <= task_stats_map[j].task_number
         IN  <<TaskSummary(task_stats_map[least])>>
             \o SortedSummaries(RemoveAt(task_stats_map, least))

\* generate_alerts: 'for ts in task_summaries'
RECURSIVE AllTaskAlerts(_)
AllTaskAlerts(task_summaries) ==
    IF task_summaries = <<>> THEN <<>>
    ELSE TaskAlerts(task_summaries[1]) \o AllTaskAlerts(Tail(task_summaries))

\* telemetry_manager: a packet arrives, is decoded and goes through
\* process_packet, which appends it to the raw-tier file
PWrite ==
    /\ p_pc = "feeding"
    /\ Len(p_an.raw) < Len(p_packets)
    /\ LET vitals == decode_vitals_packet(p_packets[Len(p_an.raw) + 1])
       IN  p_an' = process_packet(p_an, vitals[1], FALSE).self
    /\ UNCHANGED <<p_packets, p_read, p_system, p_tasks, p_output, p_pc>>
    /\ PFrame

\* process_telemetry: one line of the raw-tier file.  With main's default
\* summary_interval of 60 s the first periodic summary is due at sample 120.
PRead ==
    /\ p_pc = "feeding"
    /\ p_read < Len(p_an.raw)
    /\ LET record == p_an.raw[p_read + 1]
           free_heap == Get(record, "free_heap", 0)
           min_free_heap == Get(record, "min_free_heap", 0)
       IN  /\ p_system' = IF free_heap > 0
                          THEN system_add_sample(p_system, free_heap, min_free_heap, p_read)
                          ELSE p_system
           /\ p_tasks' = FeedTasks(p_tasks, Get(record, "tasks", <<>>), 1, p_read)
    /\ p_read' = p_read + 1
    /\ UNCHANGED <<p_packets, p_an, p_output, p_pc>>
    /\ PFrame

\* process_telemetry: the input has ended, the final _emit_summary
PSummary ==
    /\ p_pc = "feeding"
    /\ p_read = Len(p_packets)
    /\ LET system_summary == SystemSummary(p_system)
           task_summaries == SortedSummaries(p_tasks)
           alerts == SystemAlerts(system_summary) \o AllTaskAlerts(task_summaries)
           has_critical == \E i \in 1..Len(alerts) : alerts[i].severity = "critical"
           has_warning == \E i \in 1..Len(alerts) : alerts[i].severity = "warning"
       IN  p_output' = <<[status |-> IF has_critical THEN "critical"
                                    ELSE IF has_warning THEN "alert" ELSE "nominal",
                          tool |-> "health_dashboard.py",
                          analysis_window |-> p_read,
                          samples |-> p_read,
                          system |-> system_summary,
                          tasks |-> task_summaries,
                          alerts |-> alerts]>>
    /\ p_pc' = "reported"
    /\ UNCHANGED <<p_packets, p_an, p_read, p_system, p_tasks>>
    /\ PFrame

PNext == PWrite \/ PRead \/ PSummary

\* --------------------------------------------------------------------------
\* gen_tokens.py: parse_arg_types, against log_decoder.py: format_message
\* --------------------------------------------------------------------------
\* the conversion characters FORMAT_SPEC_PATTERN accepts: diouxXeEfFgGaAcspn%
ConvChars == {100, 105, 111, 117, 120, 88, 101, 69, 102, 70, 103, 71, 97, 65, 99, 115,
              112, 110, 37}

\* parse_arg_types: the type code appended for a conversion character
TypeCode(spec) ==
    IF spec \in {100, 105} THEN <<100>>                                  \* d i -> 'd'
    ELSE IF spec \in {117, 111} THEN <<117>>                             \* u o -> 'u'
    ELSE IF spec \in {120, 88} THEN <<120>>                              \* x X -> 'x'
    ELSE IF spec \in {101, 69, 102, 70, 103, 71, 97, 65} THEN <<102>>    \* -> 'f'
    ELSE IF spec = 115 THEN <<115>>                                      \* s -> 's'
    ELSE IF spec = 37 THEN <<>>                                          \* literal %%
    ELSE <<100>>                                                         \* c p n -> 'd'

\* FORMAT_SPEC_PATTERN matches at index i; the classes of the pattern do not
\* overlap with its conversion characters, so the greedy skip decides
MatchesAt(str, i) ==
    str[i] = 37 /\ SpecIndex(str, i) <= Len(str) /\ str[SpecIndex(str, i)] \in ConvChars

\* parse_arg_types: finditer from index i on, left to right without overlap
RECURSIVE ParseLoop(_, _, _)
ParseLoop(str, i, types) ==
    IF Strict(types) /\ i > Len(str) THEN types
    ELSE IF MatchesAt(str, i)
    THEN ParseLoop(str, SpecIndex(str, i) + 1, types \o TypeCode(str[SpecIndex(str, i)]))
    ELSE ParseLoop(str, i + 1, types)

parse_arg_types(fmt_string) == ParseLoop(fmt_string, 1, <<>>)

\* the characters the format strings tried are made of: % d f s , l 5
FormatChars == {37, 100, 102, 115, 44, 108, 53}

\* the longest format string tried
MaxFormat == 4

\* integer arguments, more than a format string of that length can take
EnoughArgs == [k \in 1..MaxFormat |-> SignedOf(k)]

\* gen_tokens: the format string of a LOG_xxx call is scanned
GParse ==
    /\ g_types = <<>>
    /\ g_types' = <<parse_arg_types(g_fmt)>>
    /\ UNCHANGED <<g_fmt, g_render>>
    /\ GFrame

\* log_decoder: a packet of that token is rendered
GRender ==
    /\ g_render = <<>>
    /\ g_render' = <<format_message(g_fmt, EnoughArgs)>>
    /\ UNCHANGED <<g_fmt, g_types>>
    /\ GFrame

GNext == GParse \/ GRender

\* --------------------------------------------------------------------------
\* Specifications: one per tool; the variables of the other tools stay idle
\* --------------------------------------------------------------------------
CIdle ==
    /\ c_tokens = <<>> /\ c_db = <<>> /\ c_build_id = None /\ c_out = None
    /\ c_pc = "idle" /\ c_prev = <<>>

KIdle ==
    /\ k_v = 0 /\ k_u = <<0, 0>> /\ k_back = SignedOf(0) /\ k_data = <<>>
    /\ k_offset = 0 /\ k_res = [value |-> <<0, 0>>, consumed |-> 0] /\ k_pc = "idle"

DIdle ==
    /\ d_sent = <<>> /\ d_packet_count = 0 /\ d_report = <<>> /\ d_closed = "no"
    /\ d_retry = FALSE
    /\ d_wire = <<>> /\ d_buffer = <<>> /\ d_expected = <<>> /\ d_validate = FALSE
    /\ d_first_packet = TRUE /\ d_out = <<>> /\ d_loc = LocInit /\ d_pkt = <<>>
    /\ d_pc = "idle"

TIdle ==
    /\ t_segs = <<>> /\ t_wire = <<>> /\ t_peer = "silent" /\ t_buffer = <<>>
    /\ t_packets = <<>> /\ t_got = <<>> /\ t_total_packets = 0 /\ t_an = AnalyticsInit
    /\ t_events = <<>> /\ t_stderr = <<>> /\ t_pc = "idle"

VIdle == v_buffer = <<>> /\ v_res = NoExtract /\ v_sample = <<>> /\ v_pc = "idle"

NIdle ==
    /\ n_tool = "none" /\ n_max_retries = 0 /\ n_base_delay = 0 /\ n_delay = 0
    /\ n_attempts = 0 /\ n_slept = <<>> /\ n_pc = "idle"

HIdle ==
    /\ h_series = <<>> /\ h_stats = StatsInit /\ h_summary = <<>> /\ h_pc = "idle"
    /\ h_heap = <<0, 0>> /\ h_system = SystemStatsInit /\ h_output = <<>>
    /\ h_args = ArgsIdle /\ h_calls = <<>>

XIdle ==
    /\ x_crash = <<>> /\ x_calls = <<>> /\ x_pc_info = <<>> /\ x_result = <<>>
    /\ x_pc = "idle"

SIdle ==
    /\ s_an = AnalyticsInit /\ s_last_summary_time = 0 /\ s_now = 0 /\ s_events = <<>>
    /\ s_epoch = 0

EIdle ==
    /\ e_stream = <<>> /\ e_pos = 0 /\ e_buffer = <<>> /\ e_got = <<>> /\ e_arg = <<>>
    /\ e_res = [packets |-> <<>>, rest |-> <<>>]

PIdle ==
    /\ p_packets = <<>> /\ p_an = AnalyticsInit /\ p_read = 0 /\ p_system = SystemStatsInit
    /\ p_tasks = <<>> /\ p_output = <<>> /\ p_pc = "idle"

GIdle == g_fmt = <<>> /\ g_types = <<<<>>>> /\ g_render = <<[raised |-> FALSE, text |-> <<>>, arg_idx |-> 0]>>

COthersIdle == KIdle /\ DIdle /\ TIdle /\ VIdle /\ NIdle /\ HIdle /\ XIdle /\ SIdle /\ EIdle /\ PIdle /\ GIdle
KOthersIdle == CIdle /\ DIdle /\ TIdle /\ VIdle /\ NIdle /\ HIdle /\ XIdle /\ SIdle /\ EIdle /\ PIdle /\ GIdle
DOthersIdle == CIdle /\ KIdle /\ TIdle /\ VIdle /\ NIdle /\ HIdle /\ XIdle /\ SIdle /\ EIdle /\ PIdle /\ GIdle
TOthersIdle == CIdle /\ KIdle /\ DIdle /\ VIdle /\ NIdle /\ HIdle /\ XIdle /\ SIdle /\ EIdle /\ PIdle /\ GIdle
VOthersIdle == CIdle /\ KIdle /\ DIdle /\ TIdle /\ NIdle /\ HIdle /\ XIdle /\ SIdle /\ EIdle /\ PIdle /\ GIdle
NOthersIdle == CIdle /\ KIdle /\ DIdle /\ TIdle /\ VIdle /\ HIdle /\ XIdle /\ SIdle /\ EIdle /\ PIdle /\ GIdle
HOthersIdle == CIdle /\ KIdle /\ DIdle /\ TIdle /\ VIdle /\ NIdle /\ XIdle /\ SIdle /\ EIdle /\ PIdle /\ GIdle
XOthersIdle == CIdle /\ KIdle /\ DIdle /\ TIdle /\ VIdle /\ NIdle /\ HIdle /\ SIdle /\ EIdle /\ PIdle /\ GIdle
SOthersIdle == CIdle /\ KIdle /\ DIdle /\ TIdle /\ VIdle /\ NIdle /\ HIdle /\ XIdle /\ EIdle /\ PIdle /\ GIdle
EOthersIdle == CIdle /\ KIdle /\ DIdle /\ TIdle /\ VIdle /\ NIdle /\ HIdle /\ XIdle /\ SIdle /\ PIdle /\ GIdle
POthersIdle == CIdle /\ KIdle /\ DIdle /\ TIdle /\ VIdle /\ NIdle /\ HIdle /\ XIdle /\ SIdle /\ EIdle /\ GIdle
GOthersIdle == CIdle /\ KIdle /\ DIdle /\ TIdle /\ VIdle /\ NIdle /\ HIdle /\ XIdle /\ SIdle /\ EIdle /\ PIdle

\* gen_tokens.main has parsed its arguments and scanned the source tree
CInit ==
    /\ c_tokens \in SeqsUpTo(SitePool, MaxSites)
    /\ c_db = <<>>
    /\ c_build_id = None
    /\ c_out = None
    /\ c_pc = "build"
    /\ c_prev = <<>>
    /\ COthersIdle

\* the firmware has a value to log
KInit ==
    /\ k_v \in SampleInts
    /\ k_u = <<0, 0>> /\ k_back = SignedOf(0) /\ k_data = <<>>
    /\ k_offset = 0 /\ k_res = [value |-> <<0, 0>>, consumed |-> 0]
    /\ k_pc = "value"
    /\ KOthersIdle

\* decode_stream is entered on a connected reader
DInit ==
    /\ d_sent \in SeqsUpTo(PacketPool, MaxPackets)
    /\ d_wire = Concat(d_sent, 1)
    /\ \E ses \in Sessions : d_expected = ses[1] /\ d_validate = ses[2]
    /\ d_buffer = <<>>
    /\ d_first_packet = TRUE
    /\ d_out = <<>>
    /\ d_loc = LocInit
    /\ d_pkt = <<>>
    /\ d_pc = "token"
    /\ d_packet_count = 0
    /\ d_report = <<>>
    /\ d_closed = "no"
    /\ d_retry = FALSE
    /\ DOthersIdle

\* telemetry main has connected; analytics is fresh
TInit ==
    /\ t_segs \in SeqsUpTo(SegmentPool, MaxSegments)
    /\ t_wire = Concat(t_segs, 1)
    /\ t_peer \in PeerEnds
    /\ t_buffer = <<>>
    /\ t_packets = <<>>
    /\ t_got = <<>>
    /\ t_total_packets = 0
    /\ t_an = AnalyticsInit
    /\ t_events = <<>>
    /\ t_stderr = <<>>
    /\ t_pc = "recv"
    /\ TOthersIdle

\* a buffer that starts with a vitals packet of any task_count
VInit ==
    /\ \E c \in 0..TaskCountMax, tail \in TailPool : v_buffer = SentVitals(c) \o tail
    /\ v_res = NoExtract
    /\ v_sample = <<>>
    /\ v_pc = "extract"
    /\ VOthersIdle

\* connect_with_retry or connect_rtt is entered
NInit ==
    /\ \/ /\ n_tool = "log"
          /\ n_max_retries \in 0..MaxRetries
          /\ n_base_delay \in BaseDelays
       \/ /\ n_tool = "telemetry"
          /\ n_max_retries = RTT_ATTEMPTS
          /\ n_base_delay = RTT_SLEEP
    /\ n_delay = n_base_delay
    /\ n_attempts = 0
    /\ n_slept = <<>>
    /\ n_pc = "loop"
    /\ NOthersIdle

\* the dashboard starts on the samples of one task
HInit ==
    /\ \E ramp \in Ramps, dt \in Spacings :
          h_series \in {Lifted(Series(ramp[1], ramp[2], dt, MaxSamples), lift) : lift \in StackLifts}
    /\ h_heap \in HeapProfiles
    /\ h_stats = StatsInit
    /\ h_system = SystemStatsInit
    /\ h_summary = <<>>
    /\ h_output = <<>>
    /\ h_args \in [duration : Durations, summary_interval : Intervals, alert_only : BOOLEAN]
    /\ h_calls = <<>>
    /\ h_pc = "feeding"
    /\ HOthersIdle

\* decode_crash starts on a parsed crash record
XInit ==
    /\ \E magic \in MagicPool, pc \in AddressPool, lr \in AddressPool, core \in 0..(MaxCores - 1) :
          x_crash = [magic |-> magic, pc |-> pc, lr |-> lr, xpsr |-> <<24832, 0>>,
                     core_id |-> core, task_number |-> 3]
    /\ x_calls = <<>>
    /\ x_pc_info = <<>>
    /\ x_result = <<>>
    /\ x_pc = "start"
    /\ XOthersIdle

\* TelemetryAnalytics.__init__ at second 0 of the clock
SInit ==
    /\ s_an = AnalyticsInit
    /\ s_now = 0
    /\ s_last_summary_time = 0
    /\ s_events = <<>>
    /\ s_epoch = 0
    /\ SOthersIdle

\* main before the first read, the stream being any pieces in any order
EInit ==
    /\ \E pieces \in SeqsUpTo(PiecePool, MaxPieces) : e_stream = Concat(pieces, 1)
    /\ e_pos = 0
    /\ e_buffer = <<>>
    /\ e_got = <<>>
    /\ e_arg = <<>>
    /\ e_res = [packets |-> <<>>, rest |-> <<>>]
    /\ EOthersIdle

\* both tools start, the target sending any packets of the pool
PInit ==
    /\ p_packets \in SeqsUpTo(PipePool, MaxLines)
    /\ p_an = AnalyticsInit
    /\ p_read = 0
    /\ p_system = SystemStatsInit
    /\ p_tasks = <<>>
    /\ p_output = <<>>
    /\ p_pc = "feeding"
    /\ POthersIdle

\* a format string as a source file may hold it
GInit ==
    /\ g_fmt \in SeqsUpTo(FormatChars, MaxFormat)
    /\ g_types = <<>>
    /\ g_render = <<>>
    /\ GOthersIdle

SpecCompiler == CInit /\ [][CNext]_vars

SpecCodec == KInit /\ [][KNext]_vars

SpecDecoder == DInit /\ [][DNext]_vars

\* decode_stream without a build id to expect, on any frames
FInit ==
    /\ d_sent \in SeqsUpTo(FramePool, MaxPackets)
    /\ d_wire = Concat(d_sent, 1)
    /\ d_expected = <<>> /\ d_validate = TRUE
    /\ d_buffer = <<>>
    /\ d_first_packet = TRUE
    /\ d_out = <<>>
    /\ d_loc = LocInit
    /\ d_pkt = <<>>
    /\ d_pc = "token"
    /\ d_packet_count = 0
    /\ d_report = <<>>
    /\ d_closed = "no"
    /\ d_retry = FALSE
    /\ DOthersIdle

SpecFraming == FInit /\ [][DNext]_vars

\* the first packets a session can begin with, the marker among them
MarkerPool == { PKT_build, PKT_build_bare, PKT_heap_zz, PKT_unknown }

\* decode_stream is entered with any of main's sessions on such a stream
MInit ==
    /\ d_sent \in SeqsUpTo(MarkerPool, MaxPackets)
    /\ d_wire = Concat(d_sent, 1)
    /\ \E ses \in Sessions : d_expected = ses[1] /\ d_validate = ses[2]
    /\ d_buffer = <<>>
    /\ d_first_packet = TRUE
    /\ d_out = <<>>
    /\ d_loc = LocInit
    /\ d_pkt = <<>>
    /\ d_pc = "token"
    /\ d_packet_count = 0
    /\ d_report = <<>>
    /\ d_closed = "no"
    /\ d_retry = FALSE
    /\ DOthersIdle

SpecMarker == MInit /\ [][DNext]_vars

SpecTelemetry == TInit /\ [][TNext]_vars

SpecVitals == VInit /\ [][VNext]_vars

\* sock.recv on a connection that has ended returns at once
DRecvAfterEnd == d_closed # "no" /\ DRecvClosed

\* decode_stream keeps running: a recv on an ended connection returns, and the
\* code from format_message to the print, which reads nothing, finishes
SpecDecoderLive ==
    DInit /\ [][DNext]_vars /\ WF_vars(DRecvAfterEnd) /\ []<>(d_pc # "emit")

\* telemetry main keeps running: its loop body is executed whenever it can be;
\* nobody has to press Ctrl-C
TLoop == TRecv \/ TRecvReset \/ TProcess

SpecTelemetryLive == TInit /\ [][TNext]_vars /\ WF_vars(TLoop)

SpecConnect == NInit /\ [][NNext]_vars

SpecTrend == HInit /\ [][HNext]_vars

SpecCrash == XInit /\ [][XNext]_vars

SpecSummary == SInit /\ [][SNext]_vars

SpecChunks == EInit /\ [][ENext]_vars

SpecPipeline == PInit /\ [][PNext]_vars

SpecFormats == GInit /\ [][GNext]_vars

\* either stream tool, for what is said of both
OInit == DInit \/ TInit

ONext == DNext \/ TNext

SpecOrdering == OInit /\ [][ONext]_vars

\* both analytics engines: the telemetry manager's and the dashboard's
AInit == TInit \/ HInit

ANext == TNext \/ HNext

SpecAlerts == AInit /\ [][ANext]_vars

\* --------------------------------------------------------------------------
\* Properties of the token compiler (under SpecCompiler)
\* --------------------------------------------------------------------------
CReturned == c_pc \in {"id", "write", "done"}

\* two call sites carry different format strings with equal hashes
CHasCollision ==
    \E i, j \in 1..Len(c_tokens) :
        /\ c_tokens[i].fmt # c_tokens[j].fmt
        /\ fnv1a_hash(c_tokens[i].fmt) = fnv1a_hash(c_tokens[j].fmt)

\* C1: if two call sites carry different format strings with equal hashes,
\* build_token_database exits with status 1 and returns no database; a
\* returned database holds each hash key once, with a format string that
\* hashes to that key.
C1_CollisionAborts ==
    /\ (c_pc # "build" /\ CHasCollision) => (c_pc = "exit1" /\ c_db = <<>>)
    /\ CReturned =>
          /\ \A i, j \in 1..Len(c_db) : c_db[i].key = c_db[j].key => i = j
          /\ \A i \in 1..Len(c_db) : fnv1a_hash(c_db[i].val.fmt) = c_db[i].key
          /\ DbFmts(c_db) = TokenFmts(c_tokens)

C1_Witness == c_pc = "exit1" /\ CHasCollision /\ Len(c_tokens) = 3

\* C2: the returned database holds one token per distinct format string of
\* the input, however many call sites repeat it, and a repeated string is
\* never reported as a collision.
C2_Deduplicates ==
    /\ CReturned => Len(c_db) = Cardinality(TokenFmts(c_tokens))
    /\ c_pc = "exit1" => CHasCollision

C2_Witness ==
    /\ c_pc = "done"
    /\ Len(c_db) = 2
    /\ \E i, j \in 1..Len(c_tokens) :
          i < j /\ c_tokens[i].fmt = c_tokens[j].fmt /\ c_tokens[i].file # c_tokens[j].file

CBothBuilt == c_pc \in {"write", "done"} /\ c_prev # <<>>

\* C3: two runs over the same set of unique format strings, in whatever
\* order the call sites were met, give the same build id.
C3_BuildIdOrderFree ==
    (CBothBuilt /\ c_prev[1].fmts = TokenFmts(c_tokens)) => c_build_id = c_prev[1].build_id

C3_Witness ==
    /\ CBothBuilt
    /\ c_prev[1].fmts = TokenFmts(c_tokens)
    /\ c_prev[1].keys # DbKeySeq(c_db)
    /\ c_build_id = c_prev[1].build_id

\* the set of format strings of this run is that of the previous run with
\* one string added or one removed
COneTokenApart ==
    /\ CBothBuilt
    /\ \/ \E f \in TokenFmts(c_tokens) \ c_prev[1].fmts : TokenFmts(c_tokens) = c_prev[1].fmts \cup {f}
       \/ \E f \in c_prev[1].fmts \ TokenFmts(c_tokens) : c_prev[1].fmts = TokenFmts(c_tokens) \cup {f}

\* C4 as claimed: adding or removing one token changes the build id.
C4_BuildIdChanges == COneTokenApart => c_build_id # c_prev[1].build_id

\* C4 as amended: adding or removing one token changes the sorted,
\* comma-joined hex list of hashes that compute_build_id hashes (the build
\* id is the 32-bit FNV-1a of that list, or 0 for no token, and two lists
\* may share it).
C4_HashListChanges ==
    COneTokenApart =>
        /\ hash_str(c_db) # c_prev[1].hash_str
        /\ c_build_id = (IF Len(c_db) = 0 THEN <<0, 0>> ELSE fnv1a_hash(hash_str(c_db)))

C4_Witness ==
    /\ COneTokenApart
    /\ c_build_id = c_prev[1].build_id
    /\ hash_str(c_db) # c_prev[1].hash_str

\* str.encode('utf-8') of one code point below 0x10000
Utf8Char(cp) ==
    IF cp < 128 THEN <<cp>>
    ELSE IF cp < 2048 THEN <<192 + (cp \div 64), 128 + (cp % 64)>>
    ELSE <<224 + (cp \div 4096), 128 + ((cp \div 64) % 64), 128 + (cp % 64)>>

RECURSIVE Utf8(_, _)
Utf8(str, k) == IF k > Len(str) THEN <<>> ELSE Utf8Char(str[k]) \o Utf8(str, k + 1)

\* 32-bit FNV-1a over a sequence of bytes
Fnv1aOfBytes(bytes) == FnvFold(FNV1A_32_INIT, bytes, 1)

\* C7: fnv1a_hash of a string is the 32-bit FNV-1a hash of the bytes of its
\* UTF-8 encoding, and lies in 0..2^32-1.
C7_HashOfUtf8Bytes ==
    \A i \in 1..Len(c_tokens) :
        LET hv == fnv1a_hash(c_tokens[i].fmt)
        IN  /\ hv = Fnv1aOfBytes(Utf8(c_tokens[i].fmt, 1))
            /\ hv[1] \in 0..(W16 - 1) /\ hv[2] \in 0..(W16 - 1)

\* --------------------------------------------------------------------------
\* Properties of the codec (under SpecCodec)
\* --------------------------------------------------------------------------
\* C5: zigzag_decode of the zig-zag encoding of a signed 32-bit v is v.
C5_ZigzagRoundTrip ==
    k_pc \in {"back", "varint", "decoded"} => k_back = SignedOf(k_v)

C5_Witness == k_pc = "back" /\ k_v = Int32Min /\ k_u = <<W16 - 1, W16 - 1>>

\* C6: decode_varint at the offset of the varint of a 32-bit payload u
\* returns u and the length of that varint (1 to 5 bytes), whatever bytes
\* precede or follow it.
C6_VarintRoundTrip ==
    k_pc = "decoded" =>
        /\ k_res.value = k_u
        /\ k_res.consumed = Len(VarintEncode(k_u))
        /\ k_res.consumed \in 1..5
        /\ \E suf \in SampleSuffixes :
              k_data = SubSeq(k_data, 1, k_offset) \o VarintEncode(k_u) \o suf

C6_Witness ==
    /\ k_pc = "decoded"
    /\ k_res.consumed = 5
    /\ k_offset = 2
    /\ Len(k_data) = 9
    /\ k_data[8] = 255

\* --------------------------------------------------------------------------
\* Properties of decode_stream (under SpecDecoder)
\* --------------------------------------------------------------------------
LastOut == d_out[Len(d_out)]

\* the iteration that read exactly the bytes pkt has printed its line
EmittedFor(pkt) == d_pc = "token" /\ d_pkt = pkt /\ d_out # <<>>

STR_heap4096 == <<104, 101, 97, 112, 61, 52, 48, 57, 54, 32, 102, 114, 101, 101>>   \* "heap=4096 free"
STR_heap2048 == <<104, 101, 97, 112, 61, 50, 48, 52, 56, 32, 102, 114, 101, 101>>   \* "heap=2048 free"
STR_heapBig ==                                                        \* "heap=4294963200 free"
    <<104, 101, 97, 112, 61, 52, 50, 57, 52, 57, 54, 51, 50, 48, 48, 32, 102, 114, 101, 101>>
STR_0xabcd1234 == <<48, 120, 97, 98, 99, 100, 49, 50, 51, 52>>        \* "0xabcd1234"

HeapRecord(msg, arg) ==
    [level |-> "INFO", msg |-> msg, token |-> STR_0xabcd1234, file |-> "heap.c",
     line |-> 42, raw_args |-> <<SignedOf(arg)>>, build_id_verified |-> FALSE]

\* C8 as stated: the packet 34 12 CD AB, 0x21, varint(4096) is decoded into
\* the record with level "INFO", msg "heap=4096 free", token "0xabcd1234" and
\* raw_args [4096].
C8_PlainVarintReported ==
    EmittedFor(PKT_heap_raw) =>
        /\ LastOut.level = "INFO"
        /\ LastOut.msg = STR_heap4096
        /\ LastOut.token = STR_0xabcd1234
        /\ LastOut.raw_args = <<SignedOf(4096)>>

\* C8, amended: the packet that carries the varint of the zig-zag encoding of
\* 4096 is decoded into level "INFO", msg "heap=4096 free", token "0xabcd1234",
\* raw_args [4096]; an unsigned n of 2^31 or more sent that way shows as n in
\* msg and as n - 2^32 in raw_args; the plain varint of 4096 is reported as
\* zigzag_decode(4096) = 2048.
C8_ZigzagVarintReported ==
    /\ EmittedFor(PKT_heap_zz) => LastOut = HeapRecord(STR_heap4096, 4096)
    /\ EmittedFor(PKT_heap_big) => LastOut = HeapRecord(STR_heapBig, -4096)
    /\ EmittedFor(PKT_heap_raw) => LastOut = HeapRecord(STR_heap2048, 2048)

C8_Witness ==
    /\ EmittedFor(PKT_heap_zz)
    /\ SubSeq(PKT_heap_zz, 6, 7) = VarintEncode(ZigzagEncode(4096))
    /\ SubSeq(PKT_heap_raw, 6, 7) = VarintEncode(<<0, 4096>>)
    /\ LastOut.msg = STR_heap4096
    /\ Len(d_out) = 2
    /\ d_out[1].msg = STR_heapBig

\* a line printed for a packet whose token is in the database
IsPacketRecord(r) == "file" \in DOMAIN r

\* the token texts of the database entries whose format is the build-id marker
MarkerTokens ==
    { Hex0x08(DecoderDb[k].key) :
        k \in { j \in 1..Len(DecoderDb) : Contains(DecoderDb[j].val.fmt, STR_BUILD_ID) } }

\* C9: with validation on and a build id in the database, no record is ever
\* printed for a build-id marker packet that is the first packet found in the
\* database and whose first argument, as unsigned 32-bit, differs from the
\* database's build id (the session ends instead), whether or not
\* unknown-token packets came before it.
C9_MismatchIsFatal ==
    (d_validate /\ d_expected # <<>>) =>
        \A k \in 1..Len(d_out) :
            ~ /\ IsPacketRecord(d_out[k])
              /\ \A j \in 1..(k - 1) : ~IsPacketRecord(d_out[j])
              /\ d_out[k].token \in MarkerTokens
              /\ d_out[k].raw_args # <<>>
              /\ ~IsFloatVal(d_out[k].raw_args[1])
              /\ SignedMask32(d_out[k].raw_args[1]) # WideMask32(d_expected[1])

\* the loop body is past the lookup of a token that is not in the database
UnknownNow == d_pc \in {"skip", "emit"} /\ UnpackLE32(SubSeq(d_pkt, 1, 4)) \notin DbKeys(DecoderDb)

\* the bytes read after the meta byte in this iteration
SkippedBytes == SubSeq(d_pkt, 6, Len(d_pkt))

CompleteVarints(bytes) == Cardinality({ k \in 1..Len(bytes) : bytes[k] < 128 })
EndsComplete(bytes) == bytes = <<>> \/ bytes[Len(bytes)] < 128

\* C10: a packet with a token that is not in the database never ends
\* decode_stream; nothing is printed while its arguments are skipped, then
\* exactly one record is printed, with the unknown-token msg and empty
\* raw_args; the bytes skipped are exactly as many varints as the meta byte
\* claims (fewer only when the stream ended inside them), and the loop goes
\* on to read the next token.
C10_UnknownTokenSkipped ==
    [][ UnknownNow =>
          /\ d_pc' \in {"skip", "emit", "token"}
          /\ d_pc = "skip" => d_out' = d_out
          /\ d_pc = "emit" =>
               /\ d_out' = Append(d_out,
                      [level |-> LEVEL_NAMES(d_pkt[5] \div 16),
                       msg |-> STR_unknown_token \o Hex0x08(UnpackLE32(SubSeq(d_pkt, 1, 4))) \o <<62>>,
                       token |-> Hex0x08(UnpackLE32(SubSeq(d_pkt, 1, 4))),
                       raw_args |-> <<>>])
               /\ d_pc' = "token"
               /\ \/ CompleteVarints(SkippedBytes) = d_pkt[5] % 16 /\ EndsComplete(SkippedBytes)
                  \/ /\ CompleteVarints(SkippedBytes) < d_pkt[5] % 16
                     /\ d_wire = <<>> /\ d_buffer = <<>>
      ]_vars

C10_Witness ==
    /\ Len(d_out) = 2
    /\ d_out[1] = [level |-> "DEBUG",
                   msg |-> STR_unknown_token \o Hex0x08(<<57005, 48879>>) \o <<62>>,
                   token |-> Hex0x08(<<57005, 48879>>), raw_args |-> <<>>]
    /\ d_out[2].level = "ERROR"
    /\ d_out[2].raw_args = <<SignedOf(-3)>>
    /\ d_pkt = PKT_retry
    /\ d_validate /\ d_expected # <<>>

\* --------------------------------------------------------------------------
\* Properties of the decode loop at a timeout and at the end of the connection
\* (under SpecDecoderLive)
\* --------------------------------------------------------------------------
\* the records printed by line 369, one for each packet decoded
PacketRecords == SelectSeq(d_out, LAMBDA r : "token" \in DOMAIN r)

\* a step in which sock.recv times out
DTimesOut == d_retry' /\ ~d_retry

\* C15: a read timeout in read_bytes makes the read be tried again, no buffered
\* byte is lost and nothing ends; once sock.recv has reported EOF or a reset
\* the loop of decode_stream ends, and the packet count it reports is the
\* number of packet records printed.
C15_TimeoutRetriesCloseReports ==
    /\ [][DTimesOut => /\ d_buffer' = d_buffer /\ d_wire' = d_wire /\ d_out' = d_out
                       /\ d_pc' = d_pc /\ d_pc' \in {"token", "meta", "args", "skip"}
                       /\ Len(d_buffer') < Need']_vars
    /\ (d_closed # "no" ~> d_pc = "lost")
    /\ [](d_pc = "lost" => d_report = <<Len(PacketRecords)>>)

C15_Witness ==
    /\ d_pc = "lost"
    /\ d_closed = "eof"
    /\ d_sent = <<PKT_temp, PKT_unknown_short>>
    /\ d_report = <<2>>
    /\ Len(d_out) = 2


\* --------------------------------------------------------------------------
\* Properties of the framing of one packet (under SpecVitals)
\* --------------------------------------------------------------------------
\* the task_count the header of v_buffer carries
VCount == v_buffer[HEADER_SIZE]

\* the entry decode_vitals_packet must produce for the k-th entry sent
ExpectedTask(k) ==
    [task_number     |-> k % 256,
     state           |-> TaskStateName(k % 7),
     priority        |-> k % 5,
     stack_hwm_words |-> ((k * 37) % 256) + 256 * (k % 2),
     cpu_pct         |-> k % 101,
     runtime_ms      |-> ((k * 11) % 256) + 256 * (k % 3)]

\* C12: for every task_count c in 0..255, a buffer that starts with a vitals
\* header carrying c and holds at least 14 + 8c bytes yields one packet of
\* exactly 14 + 8c bytes, and decode_vitals_packet turns it into a sample with
\* task_count c and exactly c task entries in wire order; c = 0 gives a
\* 14-byte packet with tasks [].
C12_EveryTaskCountFrames ==
    /\ v_pc \in {"decode", "done"} =>
          /\ Len(v_res.packets) = 1
          /\ Len(v_res.packets[1]) = HEADER_SIZE + TASK_ENTRY_SIZE * VCount
          /\ v_res.packets[1] = SubSeq(v_buffer, 1, HEADER_SIZE + TASK_ENTRY_SIZE * VCount)
          /\ v_res.packets[1] \o v_res.rest = v_buffer
    /\ v_pc = "done" =>
          /\ v_sample # <<>>
          /\ v_sample[1].task_count = VCount
          /\ Len(v_sample[1].tasks) = VCount
          /\ \A k \in 1..VCount : v_sample[1].tasks[k] = ExpectedTask(k)
          /\ (VCount = 0 => Len(v_res.packets[1]) = 14 /\ v_sample[1].tasks = <<>>)

C12_Witness ==
    /\ v_pc = "done"
    /\ VCount = TaskCountMax
    /\ Len(v_sample[1].tasks) = 255
    /\ v_res.rest = <<1>>

\* --------------------------------------------------------------------------
\* Properties of the telemetry manager (under SpecTelemetry)
\* --------------------------------------------------------------------------
IsVitals(seg) == seg[1] = PKT_SYSTEM_VITALS

NoSyncByte(seg) == \A i \in DOMAIN seg : seg[i] # PKT_SYSTEM_VITALS

\* the stream is complete vitals packets and noise free of the type byte
CleanStream ==
    \A i \in DOMAIN t_segs :
        IF IsVitals(t_segs[i])
        THEN Len(t_segs[i]) = HEADER_SIZE + t_segs[i][HEADER_SIZE] * TASK_ENTRY_SIZE
        ELSE NoSyncByte(t_segs[i])

ValidPackets(segs) == SelectSeq(segs, IsVitals)

\* the stream offset at which segment i ends
SegEnd(i) == Len(Concat(SubSeq(t_segs, 1, i), 1))

\* bytes of the stream that extract_packets has moved past
Consumed == Len(Concat(t_segs, 1)) - Len(t_buffer) - Len(t_wire)

\* the segments that lie wholly in the consumed part
SegsPassed == Cardinality({i \in DOMAIN t_segs : SegEnd(i) <= Consumed})

\* C11: on a stream of N valid vitals packets interleaved with noise bytes none
\* of which is the type byte 0x01, extract_packets returns exactly the packets
\* it has moved past, in order, never cuts into a packet, and what it keeps as
\* the remainder is the unconsumed tail of the stream; once the whole stream
\* was read all N packets are out and less than a header of noise is left.
C11_ResyncExtractsAll ==
    CleanStream =>
        /\ t_buffer \o t_wire
             = SubSeq(Concat(t_segs, 1), Consumed + 1, Len(Concat(t_segs, 1)))
        /\ t_got = ValidPackets(SubSeq(t_segs, 1, SegsPassed))
        /\ (SegsPassed < Len(t_segs) /\ Consumed > SegEnd(SegsPassed)
                => ~IsVitals(t_segs[SegsPassed + 1]))
        /\ (t_wire = <<>> => /\ t_got = ValidPackets(t_segs)
                              /\ Len(t_buffer) < HEADER_SIZE)

C11_Witness ==
    /\ t_segs = <<VIT_below, GARB_long, VIT_two_tasks>>
    /\ t_wire = <<>>
    /\ t_got = <<VIT_below, VIT_two_tasks>>
    /\ t_buffer = <<>>
\* the peer has closed the telemetry transport and main is about to notice
TPeerClosed == t_pc = "recv" /\ t_wire = <<>> /\ t_peer \in {"eof", "reset"}

\* main has left its loop without a KeyboardInterrupt
TEndedByPeer ==
    t_pc = "closed" /\ \E k \in DOMAIN t_stderr : t_stderr[k].text = "Connection reset by peer"

\* C14: when the peer closes the telemetry transport (recv reports EOF, or the
\* connection is reset) the main loop of telemetry_manager eventually ends and
\* the count of packets processed is reported.
C14_CloseEndsLoopWithCount ==
    /\ TPeerClosed ~> t_pc = "closed"
    /\ [](TEndedByPeer => \E k \in DOMAIN t_stderr : t_stderr[k].count = <<t_total_packets>>)

\* a step in which main calls process_packet
TCallsProcessPacket == t_total_packets' # t_total_packets

\* C16: tier 1 never drops a sample.  Every call of process_packet appends
\* exactly one record, the sample with its receipt timestamp, to the raw sink,
\* whether or not alerts fire or a summary is due; after n calls the raw sink
\* holds n records in call order and sample_count is n; no step removes or
\* rewrites a raw record.
C16_RawSinkKeepsEverySample ==
    /\ [](/\ Len(t_an.raw) = t_total_packets
          /\ t_an.sample_count = t_total_packets)
    /\ [][IF TCallsProcessPacket
          THEN /\ t_total_packets' = t_total_packets + 1
               /\ t_an.raw' = Append(t_an.raw,
                                     Stamped(decode_vitals_packet(Head(t_packets))[1]))
               /\ t_an.raw'[Len(t_an.raw')].received_at = IsoNow
          ELSE t_an.raw' = t_an.raw]_vars

C16_Witness ==
    /\ Len(t_an.raw) = 3
    /\ t_an.sample_count = 3
    /\ t_an.raw[2].free_heap = 4095
    /\ Len(t_an.alerts) >= 2
    /\ Len(t_an.summaries) = 2
    /\ t_an.samples = <<>>

\* the alerts among the events the call of this step returns
AlertsReturned == SelectSeq(t_events', LAMBDA e : e.type = "alert")

\* the sample the call of this step is given
SampleGiven == decode_vitals_packet(Head(t_packets))[1]

\* C17: tier 3 alerts are exact and immediate.  The call of process_packet
\* that receives a sample returns a critical heap_low alert if and only if
\* free_heap is strictly below 4096 (4096 itself fires nothing, 4095 fires),
\* exactly one stack_low warning for each task whose stack_hwm_words is below
\* 32, and no other alert; the alerts of a sample are returned and logged by
\* the call that receives it, never by a later one.
C17_AlertsExactAndImmediate ==
    [][TCallsProcessPacket =>
        LET heap  == SelectSeq(AlertsReturned, LAMBDA e : e.category = "heap_low")
            stack == SelectSeq(AlertsReturned, LAMBDA e : e.category = "stack_low")
            low   == SelectSeq(SampleGiven.tasks, LAMBDA t : t.stack_hwm_words < 32)
        IN  /\ Len(heap) = (IF SampleGiven.free_heap < 4096 THEN 1 ELSE 0)
            /\ \A k \in DOMAIN heap :
                  heap[k].severity = "critical" /\ heap[k].value = SampleGiven.free_heap
            /\ Len(stack) = Len(low)
            /\ \A k \in DOMAIN stack :
                  /\ stack[k].severity = "warning"
                  /\ stack[k].task_number = low[k].task_number
                  /\ stack[k].value = low[k].stack_hwm_words
            /\ Len(AlertsReturned) = Len(heap) + Len(stack)
            /\ t_an.alerts' = t_an.alerts \o AlertsReturned]_vars

C17_Witness ==
    /\ Len(t_an.raw) = 2
    /\ t_an.raw[1].free_heap = 4096
    /\ t_an.raw[2].free_heap = 4095
    /\ Len(t_an.alerts) = 2
    /\ t_an.alerts[1].category = "heap_low"
    /\ t_an.alerts[2].category = "stack_low"
    /\ t_events = t_an.alerts


\* --------------------------------------------------------------------------
\* Properties of both stream tools (under SpecOrdering)
\* --------------------------------------------------------------------------
IsPrefix(a, b) == Len(a) <= Len(b) /\ SubSeq(b, 1, Len(a)) = a

\* every packet sent is complete
WellFormedLog == \A i \in DOMAIN d_sent : d_sent[i] # PKT_unknown_short

\* the length of the first i packets sent
DBytesBefore(i) == Len(Concat(SubSeq(d_sent, 1, i), 1))

\* bytes read_bytes has handed to decode_stream
DConsumed == Len(Concat(d_sent, 1)) - Len(d_buffer) - Len(d_wire)

\* the log decoder is inside its loop on an open connection
DInLoop == d_pc \in {"token", "meta", "args", "skip", "emit"} /\ d_closed = "no"

\* while record i+1 is assembled only bytes of packet i+1 have been consumed
DAssemblesInOrder ==
    DInLoop /\ WellFormedLog =>
        /\ Len(d_out) <= Len(d_sent)
        /\ DConsumed = DBytesBefore(Len(d_out)) + (IF d_pc = "token" THEN 0 ELSE Len(d_pkt))
        /\ (d_pc # "token" =>
               /\ Len(d_out) < Len(d_sent)
               /\ IsPrefix(d_pkt, d_sent[Len(d_out) + 1]))
        /\ (d_pc = "emit" => d_pkt = d_sent[Len(d_out) + 1])

\* a record is appended, it is that of the next packet sent, and nothing
\* behind that packet has been consumed
DEmitsInOrder ==
    d_out' # d_out =>
        /\ d_out' = Append(d_out, d_out'[Len(d_out')])
        /\ (d_closed = "no" /\ WellFormedLog =>
               /\ d_pkt = d_sent[Len(d_out')]
               /\ ("token" \in DOMAIN d_out'[Len(d_out')] =>
                      d_out'[Len(d_out')].token
                          = Hex0x08(UnpackLE32(SubSeq(d_sent[Len(d_out')], 1, 4))))
               /\ DConsumed' = DBytesBefore(Len(d_out')))

\* the samples process_packet was given are those of the packets of the
\* stream, in the order the packets start
TSamplesInOrder ==
    CleanStream =>
        /\ Len(t_an.raw) <= Len(ValidPackets(t_segs))
        /\ \A k \in 1..Len(t_an.raw) :
              t_an.raw[k] = Stamped(decode_vitals_packet(ValidPackets(t_segs)[k])[1])

\* C13: records and samples come out in byte-arrival order.  In the log
\* decoder the i-th record printed is that of the i-th packet of the stream and
\* is printed before any byte of packet i+1 is consumed; in the telemetry loop
\* the samples given to the analytics engine are in the order their packets
\* start in the stream, however the stream is cut into reads.
C13_ArrivalOrder ==
    /\ [](DAssemblesInOrder /\ TSamplesInOrder)
    /\ [][DEmitsInOrder]_vars

C13_Witness ==
    /\ d_sent = <<PKT_unknown, PKT_retry>>
    /\ Len(d_out) = 2
    /\ d_out[1].token = Hex0x08(UnpackLE32(<<239, 190, 173, 222>>))
    /\ d_out[2].token = Hex0x08(UnpackLE32(<<26, 134, 186, 125>>))
    /\ d_closed = "no"

\* --------------------------------------------------------------------------
\* Properties of the initial connection (under SpecConnect)
\* --------------------------------------------------------------------------
\* connection attempts that have failed
NFailures == IF n_pc = "connected" THEN n_attempts - 1 ELSE n_attempts

\* C18: connect_with_retry makes at most max_retries attempts, returns at the
\* first success without a further attempt, waits between consecutive failed
\* attempts a delay that starts at the base delay and doubles each time up to
\* the cap of 30 seconds, does not wait after the last failure, and after
\* max_retries failures ends the program with exit status 1.
C18_LogConnectBacksOff ==
    /\ [](n_tool = "log" =>
            /\ n_attempts <= n_max_retries
            /\ Len(n_slept) = Min(NFailures, Max(n_max_retries - 1, 0))
            /\ (n_slept # <<>> => n_slept[1] = n_base_delay)
            /\ \A k \in 1..(Len(n_slept) - 1) : n_slept[k + 1] = Min(2 * n_slept[k], 30)
            /\ (n_pc = "exit1" => NFailures = n_max_retries)
            /\ (NFailures = n_max_retries => n_pc \in {"loop", "exit1"}))
    /\ [][n_tool = "log" =>
            /\ (n_pc = "connected" => n_attempts' = n_attempts)
            /\ (n_pc = "loop" /\ NFailures = n_max_retries => n_pc' = "exit1")]_vars

C18_Witness ==
    /\ n_tool = "log"
    /\ n_pc = "exit1"
    /\ n_max_retries = 7
    /\ n_slept = <<1, 2, 4, 8, 16, 30>>

\* C19: connect_rtt makes at most 10 attempts, the delay between consecutive
\* failed attempts grows exponentially from a fixed base up to a capped
\* maximum, and exhausting the attempts is fatal.
C19_TelemetryConnectBacksOff ==
    n_tool = "telemetry" =>
        /\ n_attempts <= 10
        /\ (Len(n_slept) >= 2 => n_slept[2] > n_slept[1])
        /\ \E cap \in 1..3600 :
              \A k \in 1..(Len(n_slept) - 1) : n_slept[k + 1] = Min(2 * n_slept[k], cap)
        /\ (NFailures = 10 => n_pc \in {"loop", "raised"})

\* --------------------------------------------------------------------------
\* Properties of the CPU trend (under SpecTrend)
\* --------------------------------------------------------------------------
\* the samples the summary was computed from
HFed == SubSeq(h_series, 1, Len(h_stats.cpu_pcts))

\* the sums of the least-squares line through HFed, taken over the samples
LsqN == Len(HFed)
LsqSx == SeqSum([k \in 1..LsqN |-> HFed[k][1]])
LsqSy == SeqSum([k \in 1..LsqN |-> HFed[k][2]])
LsqSxy == SeqSum([k \in 1..LsqN |-> HFed[k][1] * HFed[k][2]])
LsqSxx == SeqSum([k \in 1..LsqN |-> HFed[k][1] * HFed[k][1]])

\* numerator and denominator of its slope per half second
LsqNum == LsqN * LsqSxy - LsqSx * LsqSy
LsqDen == LsqN * LsqSxx - LsqSx * LsqSx

\* the scenario: 10 samples, 10% to 55%, 0.5 s apart; and the same reversed
RisingScenario == Series(10, 5, 1, 10)
FallingScenario == Series(55, 0 - 5, 1, 10)

\* C20: fed 10 samples of one task whose CPU% rises from 10% to 55% over 5
\* seconds, the regression slope is positive and TaskStats.summary gives the
\* trend "rising"; fed the same values in reverse order at the same times it
\* gives "falling"; and whenever the slope of the least-squares line is below
\* 0.01 %/s in magnitude the trend is "stable", otherwise it has the sign of
\* the slope.
C20_CpuTrendFollowsSlope ==
    h_pc = "reported" =>
        LET d == h_summary[1]
            cpu_slope == RegSlope(h_stats.cpu_regression)
        IN  /\ (HFed = RisingScenario => cpu_slope.num > 0 /\ d.cpu_trend = "rising")
            /\ (HFed = FallingScenario => cpu_slope.num < 0 /\ d.cpu_trend = "falling")
            /\ (LsqN >= 2 /\ LsqDen > 0 =>
                   /\ cpu_slope = [num |-> 2 * LsqNum, den |-> LsqDen]
                   /\ (200 * Abs(LsqNum) < LsqDen => d.cpu_trend = "stable")
                   /\ (200 * Abs(LsqNum) >= LsqDen /\ LsqNum > 0 => d.cpu_trend = "rising")
                   /\ (200 * Abs(LsqNum) >= LsqDen /\ LsqNum < 0 => d.cpu_trend = "falling"))
            /\ (LsqN < 2 \/ LsqDen = 0 => d.cpu_trend = "stable")

C20_Witness ==
    /\ h_pc = "reported"
    /\ HFed = RisingScenario
    /\ h_summary[1].cpu_trend = "rising"
    /\ RegSlope(h_stats.cpu_regression) = [num |-> 8250, den |-> 825]

\* --------------------------------------------------------------------------
\* Properties of the alerts of both engines (under SpecAlerts)
\* --------------------------------------------------------------------------
AlertFields == {"category", "severity", "message", "value", "threshold"}

\* the alerts of the tiered engine's latest call, and of the dashboard's output
TieredAlerts == SelectSeq(t_events, LAMBDA e : e.type = "alert")
DashAlerts == IF h_output = <<>> THEN <<>> ELSE h_output[1].alerts

HasTaxonomy(a) == AlertFields \subseteq DOMAIN a

\* the severity each engine gives to a low stack and to a low heap
TieredSeverities(cat) ==
    {(TieredAlerts[i]).severity : i \in {j \in 1..Len(TieredAlerts) : (TieredAlerts[j]).category = cat}}
DashSeverities(cat) ==
    {(DashAlerts[i]).severity : i \in {j \in 1..Len(DashAlerts) : (DashAlerts[j]).type = cat}}

\* C21: every alert of the tiered engine (_check_alerts) and every alert of
\* the continuous engine (generate_alerts) carries the fields category,
\* severity, message, value and threshold, and a low stack watermark has the
\* same severity in both (the tiered engine gives it "warning").
C21_SameAlertTaxonomy ==
    /\ \A i \in 1..Len(TieredAlerts) : HasTaxonomy(TieredAlerts[i])
    /\ \A i \in 1..Len(DashAlerts) : HasTaxonomy(DashAlerts[i])
    /\ TieredSeverities("stack_low") \subseteq {"warning"}
    /\ DashSeverities("stack_low") \subseteq {"warning"}

\* the free heap of the most recent sample processed
RecentHeap == HeapAt(Len(h_stats.cpu_pcts))

\* the heap status that the slope and the most recent free heap call for
HeapStatusDue ==
    LET slope == RegSlope(h_system.heap_regression)
    IN  IF slope.num < (0 - 1) * slope.den THEN "leaking"
        ELSE IF RecentHeap < 8192 THEN "low"
        ELSE "stable"

\* C34: at each emission of the continuous engine the system status is leaking
\* if the heap regression slope is below -1 byte/s, else low if the free heap
\* of the most recent sample processed is below 8192, else stable; and a
\* critical heap_low alert is present whenever that free heap is below 8192,
\* a free heap of 0 included.
C34_HeapUsesCurrentValue ==
    h_pc = "reported" /\ h_output # <<>> =>
        /\ h_output[1].system # <<>>
        /\ h_output[1].system[1].heap_status = HeapStatusDue
        /\ (RecentHeap < 8192 => DashSeverities("heap_low") = {"critical"})

\* the smallest stack watermark among the samples fed
StackFloorSeen == SeqMin([k \in 1..Len(HFed) |-> HFed[k][3]])

\* C35: the stack status of a task is critical if the minimum stack watermark
\* observed for it is below 64 words, warning if it is at least 64 and below
\* 128, healthy otherwise; and a critical stack_low alert is generated exactly
\* for the tasks whose minimum watermark is below 64.
C35_StackStatusByFloor ==
    h_pc = "reported" =>
        /\ h_summary[1].stack_hwm_min = StackFloorSeen
        /\ (h_summary[1].stack_status = "critical" <=> StackFloorSeen < 64)
        /\ (h_summary[1].stack_status = "warning" <=> StackFloorSeen >= 64 /\ StackFloorSeen < 128)
        /\ (h_summary[1].stack_status = "healthy" <=> StackFloorSeen >= 128)
        /\ (h_output # <<>> =>
               /\ h_output[1].tasks = h_summary
               /\ DashSeverities("stack_low") = (IF StackFloorSeen < 64 THEN {"critical"} ELSE {})
               /\ \A i \in 1..Len(DashAlerts) :
                      DashAlerts[i].type = "stack_low" =>
                          DashAlerts[i].task = h_summary[1].name /\ DashAlerts[i].value = StackFloorSeen)

\* a task whose watermark has come down to the floor itself: a warning, no alert
C35_Witness ==
    /\ h_pc = "reported" /\ h_output # <<>>
    /\ StackFloorSeen = 64
    /\ h_summary[1].stack_status = "warning"
    /\ DashSeverities("stack_low") = {}

\* the samples accepted so far
Accepted == Len(h_stats.cpu_pcts)

\* k of the cadence: max(1, int(summary_interval / 0.5)), the interval being
\* held in tenths of a second
CadenceK == IF h_args.summary_interval < 5 THEN 1 ELSE h_args.summary_interval \div 5

\* the _emit_summary calls are the first periodic ones, one after every k-th
\* sample, and the final one if the input has ended
CallsAre(periodic) ==
    /\ Len(h_calls) = periodic + (IF h_pc = "reported" THEN 1 ELSE 0)
    /\ \A i \in 1..periodic : h_calls[i].samples = i * CadenceK
    /\ (h_pc = "reported" => h_calls[Len(h_calls)].samples = Accepted)
    /\ \A i \in 1..Len(h_calls) : h_calls[i].printed
    /\ (h_pc = "reported" => h_output # <<>> /\ h_output[1].samples = Accepted)

\* C37 as stated: with alert-only off process_telemetry emits one summary
\* after every k-th accepted sample, k = max(1, int(summary_interval / 0.5)),
\* and one final summary when the input ends: floor(n / k) + 1 summaries for n
\* accepted samples, the final one covering all n.
C37_CadenceEveryKth ==
    h_pc \in {"feeding", "reported"} /\ ~h_args.alert_only => CallsAre(Accepted \div CadenceK)

\* C37, amended: that holds for a summary_interval above 0; with a
\* summary_interval of 0 there is no periodic summary and the final summary
\* is the only one.
C37_CadenceWhenIntervalPositive ==
    h_pc \in {"feeding", "reported"} /\ ~h_args.alert_only =>
        CallsAre(IF h_args.summary_interval > 0 THEN Accepted \div CadenceK ELSE 0)

\* ten samples at an interval of 1.5 s: summaries behind samples 3, 6, 9 and
\* the final one
C37_Witness ==
    /\ h_pc = "reported" /\ ~h_args.alert_only
    /\ h_args.summary_interval = 15
    /\ Accepted = 10
    /\ [i \in 1..Len(h_calls) |-> h_calls[i].samples] = <<3, 6, 9, 10>>

\* the free heap values that reach SystemStats: those above 0, in order
RECURSIVE HeapsFed(_)
HeapsFed(n) ==
    IF n = 0 THEN <<>>
    ELSE IF HeapAt(n) > 0 THEN Append(HeapsFed(n - 1), HeapAt(n)) ELSE HeapsFed(n - 1)

\* the analysis state is what the samples accepted make it, whatever was printed
AnalysisFollowsSamples ==
    /\ h_stats.cpu_pcts = [k \in 1..Accepted |-> h_series[k][2]]
    /\ h_stats.stack_hwms = [k \in 1..Accepted |-> h_series[k][3]]
    /\ h_stats.cpu_regression.n = Accepted
    /\ h_stats.cpu_regression.sum_y = SeqSum(h_stats.cpu_pcts)
    /\ h_system.heap_values = HeapsFed(Accepted)
    /\ h_system.heap_regression.n = Len(h_system.heap_values)
    /\ h_system.heap_regression.sum_y = SeqSum(h_system.heap_values)

\* an _emit_summary call is made in this step
HEmits == Len(h_calls') = Len(h_calls) + 1

\* the alerts that fire on the analysis state behind this step
AlertsBehind == generate_alerts(SystemSummary(h_system'), <<TaskSummary(h_stats')>>)

\* C38: with alert_only set an emission, periodic or final, produces output if
\* and only if at least one alert fires at that emission; and the analysis
\* state (regression sums, sample lists) is updated in the same way whether or
\* not output is suppressed.
C38_AlertOnlyPrintsOnAlert ==
    /\ [](h_pc \in {"feeding", "reported"} => AnalysisFollowsSamples)
    /\ [][HEmits /\ h_args.alert_only =>
            /\ (h_output' # <<>> <=> AlertsBehind # <<>>)
            /\ (h_calls'[Len(h_calls')].printed <=> AlertsBehind # <<>>)
            /\ (h_output' # <<>> => h_output'[1].alerts = AlertsBehind)]_vars

\* alert-only: emissions that printed nothing, then one that printed an alert
C38_Witness ==
    /\ h_pc = "reported" /\ h_args.alert_only
    /\ Len(h_calls) >= 3
    /\ ~h_calls[1].printed
    /\ h_calls[Len(h_calls)].printed
    /\ h_output # <<>>
    /\ DashSeverities("stack_low") = {"critical"}

\* --------------------------------------------------------------------------
\* Properties of the crash decoder (under SpecCrash)
\* --------------------------------------------------------------------------
KnownMagics ==
    {MAGIC_HARDFAULT, MAGIC_STACK_OVERFLOW, MAGIC_MALLOC_FAILURE, MAGIC_WATCHDOG}

\* the addresses among pc, lr that are not zero, in that order
NonZeroOf(crash) ==
    (IF crash.pc = <<0, 0>> THEN <<>> ELSE <<crash.pc>>)
    \o (IF crash.lr = <<0, 0>> THEN <<>> ELSE <<crash.lr>>)

CalledOn == [i \in 1..Len(x_calls) |-> x_calls[i].addr]

NoneSentinel == [function |-> Text("(none)"), location |-> Text("N/A")]

\* the entry of the report for address addr names the sentinel iff addr is 0
EntryFits(entry, addr) ==
    /\ DOMAIN entry = {"address", "function", "location"}
    /\ (addr = <<0, 0>>) =>
          entry.function = NoneSentinel.function /\ entry.location = NoneSentinel.location
    /\ (addr # <<0, 0>>) => entry.function # NoneSentinel.function

XDone == x_pc = "done"

\* C22: for the HardFault and StackOverflow magics and for every magic that is
\* not one of the four known ones, decode_crash resolves pc and lr through the
\* symbolizer, except that an address of zero gets the "(none)" sentinel and
\* the symbolizer is not run on it; an unknown magic is labelled "Unknown"
\* with the raw magic in hexadecimal.
C22_ResolvesPcAndLr ==
    (XDone /\ x_crash.magic \notin {MAGIC_MALLOC_FAILURE, MAGIC_WATCHDOG}) =>
        LET r == x_result[1]
        IN  /\ CalledOn = NonZeroOf(x_crash)
            /\ EntryFits(r.pc, x_crash.pc)
            /\ EntryFits(r.lr, x_crash.lr)
            /\ (x_crash.magic = MAGIC_HARDFAULT => r.crash_type = Text("HardFault"))
            /\ (x_crash.magic = MAGIC_STACK_OVERFLOW => r.crash_type = Text("Stack Overflow"))
            /\ (x_crash.magic \notin KnownMagics =>
                   /\ r.crash_type.text = "Unknown ({})"
                   /\ r.crash_type.args = <<r.magic>>)
            \* 0xDEADBEEF and 0x00000000
            /\ (x_crash.magic = <<57005, 48879>> =>
                   r.magic = <<48, 120, 68, 69, 65, 68, 66, 69, 69, 70>>)
            /\ (x_crash.magic = <<0, 0>> =>
                   r.magic = <<48, 120, 48, 48, 48, 48, 48, 48, 48, 48>>)

C22_Witness ==
    /\ XDone
    /\ x_crash.magic = <<57005, 48879>>
    /\ x_crash.pc = <<0, 0>>
    /\ x_crash.lr = <<4096, 512>>
    /\ CalledOn = <<(<<4096, 512>>)>>
    /\ x_result[1].pc.function = Text("(none)")

\* C23: for the MallocFailure and WatchdogTimeout magics decode_crash never
\* runs the symbolizer; MallocFailure reports the pc field as
\* free_heap_at_failure and nothing of the report depends on lr;
\* WatchdogTimeout reports the pc field as the missing-task bitmask and the lr
\* field as the tick count at timeout.
C23_ReinterpretsWithoutSymbolizer ==
    x_crash # <<>> /\ x_crash.magic \in {MAGIC_MALLOC_FAILURE, MAGIC_WATCHDOG} =>
        /\ x_calls = <<>>
        /\ x_pc \in {"start", "done"}
        /\ (XDone /\ x_crash.magic = MAGIC_MALLOC_FAILURE =>
               /\ x_result[1].free_heap_at_failure = x_crash.pc
               /\ x_result[1].pc = NotApplicable /\ x_result[1].lr = NotApplicable
               /\ "tick_count_at_timeout" \notin DOMAIN x_result[1]
               /\ \A lr \in AddressPool :
                     x_result[1] = MallocReport([x_crash EXCEPT !.lr = lr]))
        /\ (XDone /\ x_crash.magic = MAGIC_WATCHDOG =>
               /\ x_result[1].missing_task_bits = HexUp8(x_crash.pc)
               /\ x_result[1].tick_count_at_timeout = x_crash.lr
               /\ x_result[1].pc = NotApplicable /\ x_result[1].lr = NotApplicable
               /\ "free_heap_at_failure" \notin DOMAIN x_result[1])

C23_Witness ==
    /\ XDone
    /\ x_crash.magic = MAGIC_MALLOC_FAILURE
    /\ x_crash.pc = <<4096, 512>>
    /\ x_crash.lr = <<8192, 4>>
    /\ x_result[1].free_heap_at_failure = <<4096, 512>>

\* the function text resolve_address gives for each way a run can fail
FailureText(outcome) ==
    CASE outcome = "short" -> "??"
      [] outcome = "timeout" -> "error: addr2line timeout"
      [] outcome = "missing" -> "error: {} not found"
      [] outcome = "error" -> "error: {}"
      [] OTHER -> "lines[0]"

\* the run of the symbolizer for pc and for lr, <<>> when the address is zero
PcCall == IF x_crash.pc = <<0, 0>> \/ x_calls = <<>> THEN <<>> ELSE <<x_calls[1]>>
LrCall ==
    IF x_crash.lr = <<0, 0>> \/ ~XDone \/ x_calls = <<>> THEN <<>>
    ELSE <<x_calls[Len(x_calls)]>>

CompleteReport(r) ==
    /\ {"crash_type", "magic", "core_id", "task_number", "xpsr", "pc", "lr"} \subseteq DOMAIN r
    /\ DOMAIN r.pc = {"address", "function", "location"}
    /\ DOMAIN r.lr = {"address", "function", "location"}

\* C24: whatever a run of the symbolizer comes to (output, short output,
\* timeout, missing tool, any other error), resolve_address returns a
\* function/location pair with the failure as an error text or the "??"
\* sentinel, no exception leaves the decoder, and decode_crash ends with a
\* complete report.
C24_NoSymbolizerFailureEscapes ==
    /\ x_pc # "raised"
    /\ (x_pc_info # <<>> =>
           /\ DOMAIN x_pc_info[1] = {"function", "location"}
           /\ (PcCall # <<>> => x_pc_info[1].function.text = FailureText(PcCall[1].outcome))
           /\ (PcCall # <<>> /\ PcCall[1].outcome # "lines" =>
                  x_pc_info[1].location = Text("??:0")))
    /\ (XDone =>
           /\ CompleteReport(x_result[1])
           /\ (LrCall # <<>> =>
                  /\ x_result[1].lr.function.text = FailureText(LrCall[1].outcome)
                  /\ (LrCall[1].outcome # "lines" => x_result[1].lr.location = Text("??:0")))
           /\ (PcCall # <<>> => x_result[1].pc.function.text = FailureText(PcCall[1].outcome)))
    /\ (x_pc \in {"lr", "done"} /\ ResolvesAddresses(x_crash.magic) => x_pc_info # <<>>)

C24_Witness ==
    /\ XDone
    /\ Len(x_calls) = 2
    /\ x_calls[1].outcome = "error"
    /\ x_calls[2].outcome = "timeout"
    /\ x_result[1].pc.function.text = "error: {}"
    /\ x_result[1].lr.function = Text("error: addr2line timeout")

\* --------------------------------------------------------------------------
\* Properties of the periodic summary (under SpecSummary)
\* --------------------------------------------------------------------------
SummariesIn(events) == SelectSeq(events, LAMBDA e : e.type = "summary")

\* the sample_count fields of all summaries written so far, added up
SummarisedCount == SeqSum([i \in 1..Len(s_an.summaries) |-> s_an.summaries[i].sample_count])

SCall == s_an'.sample_count = s_an.sample_count + 1

\* C25: a process_packet call emits a summary exactly when at least
\* SUMMARY_INTERVAL_S seconds have passed since the previous summary or the
\* engine's start; the summary counts exactly the samples received since then,
\* the current one included, and ends with the current one; after it the
\* sample buffer is empty and the interval starts anew; and always the
\* sample_count fields of all summaries plus the buffer length add up to the
\* number of samples received.
C25_SummaryEveryInterval ==
    /\ [](SummarisedCount + Len(s_an.samples) = s_an.sample_count)
    /\ [][SCall =>
            LET emitted == SummariesIn(s_events')
            IN  /\ Len(emitted) = (IF s_now - s_epoch >= 300 THEN 1 ELSE 0)
                /\ (emitted # <<>> =>
                       /\ emitted[1].sample_count = Len(s_an.samples) + 1
                       /\ emitted[1].heap_current = s_an'.raw[Len(s_an'.raw)].free_heap
                       /\ s_an'.samples = <<>>
                       /\ s_an'.summaries = Append(s_an.summaries, emitted[1])
                       /\ s_last_summary_time' = s_now)
                /\ (emitted = <<>> =>
                       /\ Len(s_an'.samples) = Len(s_an.samples) + 1
                       /\ s_an'.summaries = s_an.summaries
                       /\ s_last_summary_time' = s_last_summary_time)]_vars

\* a second summary, one interval after the first, holding two samples
C25_Witness ==
    /\ Len(s_an.summaries) = 2
    /\ s_an.summaries[2].sample_count = 2
    /\ s_an.sample_count = 3
    /\ s_an.samples = <<>>
    /\ s_last_summary_time = 600

\* the free heap of the samples of the window a call closes
WindowHeaps == [k \in 1..(Len(s_an.samples) + 1) |->
                  s_an'.raw[Len(s_an.raw) - Len(s_an.samples) + k].free_heap]

\* the seconds the window has lasted when the call is made
WindowSeconds == s_now - s_epoch

\* C32: the heap slope of a tiered summary is (free heap of the last sample of
\* the window - free heap of the first) divided by the seconds elapsed over
\* that window, however many samples it has and however long it lasted; with
\* fewer than two samples the slope is 0.
C32_HeapSlopeOverElapsed ==
    [][SCall /\ SummariesIn(s_events') # <<>> =>
         LET slope == SummariesIn(s_events')[1].heap_slope_bytes_per_sec
             heaps == WindowHeaps
         IN  IF Len(heaps) < 2 THEN slope.num = 0
             ELSE slope.num * WindowSeconds = (heaps[Len(heaps)] - heaps[1]) * slope.den]_vars

\* the slope of the summary is below the threshold of -10 bytes a second
SlopeBelowThreshold(summary) ==
    summary.heap_slope_bytes_per_sec.num < (0 - 10) * summary.heap_slope_bytes_per_sec.den

\* C33: the status of a tiered summary is heap_leak_suspected if the heap slope
\* is more negative than -10 bytes/s; else heap_caution if the window's minimum
\* free heap is below 2 x 4096; else nominal: one status for each summary.
C33_SummaryStatusOrder ==
    \A k \in 1..Len(s_an.summaries) :
        LET summary == s_an.summaries[k]
        IN  /\ summary.status \in {"heap_leak_suspected", "heap_caution", "nominal"}
            /\ (summary.status = "heap_leak_suspected" <=> SlopeBelowThreshold(summary))
            /\ (summary.status = "heap_caution" <=>
                    ~SlopeBelowThreshold(summary) /\ summary.heap_min < 2 * 4096)

\* a leak with the heap under the caution limit, then a window that falls by
\* exactly 10 bytes/s down to exactly the caution limit
C33_Witness ==
    /\ Len(s_an.summaries) = 2
    /\ s_an.summaries[1].status = "heap_leak_suspected"
    /\ s_an.summaries[1].heap_min = 4095
    /\ s_an.summaries[2].status = "nominal"
    /\ s_an.summaries[2].heap_min = 8192
    /\ s_an.summaries[2].heap_slope_bytes_per_sec = [num |-> 0 - 3000, den |-> 300]

\* --------------------------------------------------------------------------
\* Properties of the framing over any split (under SpecChunks)
\* --------------------------------------------------------------------------
EReceived == SubSeq(e_stream, 1, e_pos)

\* C26: however the stream is split into chunks, the packets that the
\* repeated calls of extract_packets on (remainder + next chunk) have returned
\* so far, and the remainder kept, are those of one call on all bytes received.
C26_ChunkingIndependent ==
    /\ e_got = extract_packets(EReceived).packets
    /\ e_buffer = extract_packets(EReceived).rest

\* a stream cut inside a header and inside the task entries, two packets out
C26_Witness ==
    /\ e_stream = VIT_below \o GARB_short \o VIT_below
    /\ e_pos = Len(e_stream)
    /\ e_got = <<VIT_below, VIT_below>>
    /\ e_arg = <<(GARB_short \o VIT_below)>>
    /\ e_res.packets = <<VIT_below>>
    /\ e_buffer = <<>>

\* buf[o..end] is, from packet k of pkts on, packets of pkts in order, each
\* with the type byte first and HEADER_SIZE + TASK_ENTRY_SIZE * taskCount
\* long, and between them bytes that are not the type byte
RECURSIVE Covers(_, _, _, _, _)
Covers(buf, end, o, pkts, k) ==
    IF o > end THEN k > Len(pkts)
    ELSE IF buf[o] # 1 THEN Covers(buf, end, o + 1, pkts, k)
    ELSE /\ k <= Len(pkts)
         /\ o + 13 <= end
         /\ Len(pkts[k]) = 14 + 8 * buf[o + 13]
         /\ o + Len(pkts[k]) - 1 <= end
         /\ pkts[k] = SubSeq(buf, o, o + Len(pkts[k]) - 1)
         /\ Covers(buf, end, o + Len(pkts[k]), pkts, k + 1)

\* a remainder that waits for more bytes
Waits(rest) ==
    \/ Len(rest) < 14
    \/ rest[1] = 1 /\ Len(rest) < 14 + 8 * rest[14]

\* C27: extract_packets on any buffer ends and keeps every byte: its packets
\* are disjoint slices of the buffer in order, each starting with the vitals
\* type byte and 14 + 8 * taskCount long; the bytes before the remainder that
\* are in no packet are not the type byte; the remainder is the rest of the
\* buffer and is shorter than 14 bytes or starts with a vitals header whose
\* packet is not all there.
C27_ExtractConservesBytes ==
    e_arg # <<>> =>
        LET buf == e_arg[1]
            end == Len(buf) - Len(e_res.rest)
        IN  /\ end >= 0
            /\ e_res.rest = SubSeq(buf, end + 1, Len(buf))
            /\ Covers(buf, end, 1, e_res.packets, 1)
            /\ Waits(e_res.rest)

\* noise with the type byte in it, a packet framed at that byte, a tail kept
C27_Witness ==
    /\ e_arg = <<(NOISE_type \o VIT_at_limit \o GARB_short)>>
    /\ Len(e_res.packets) = 1
    /\ e_res.packets[1] = NOISE_type \o SubSeq(VIT_at_limit, 1, 13)
    /\ e_res.rest = <<0, 255, 0>>

\* --------------------------------------------------------------------------
\* Properties of the framing of arguments (under SpecFraming)
\* --------------------------------------------------------------------------
DStream == Concat(d_sent, 1)

\* the bytes of the varint that starts behind position pos: up to the first
\* byte without the continuation bit, five at most
WireVarintLen(bytes, pos) ==
    LET ends == {k \in 1..5 : pos + k <= Len(bytes) /\ bytes[pos + k] < 128}
    IN  IF ends = {} THEN 5 ELSE CHOOSE k \in ends : \A j \in ends : k <= j

\* the k-th byte of bytes, 0 where bytes ends before it
WireByte(bytes, k) == IF k \in DOMAIN bytes THEN bytes[k] ELSE 0

\* the payload of n varint bytes behind pos, seven bits a byte, low bits first
RECURSIVE WirePayload(_, _, _)
WirePayload(bytes, pos, n) ==
    IF n = 0 THEN <<0, 0>>
    ELSE WideAdd(WirePayload(bytes, pos, n - 1), WideShl(WireByte(bytes, pos + n) % 128, 7 * (n - 1)))

\* zig-zag: even payloads are n / 2, odd ones -(n + 1) / 2
WireSigned(u) == [neg |-> u[2] % 2 = 1, mag |-> WideShr1(u)]

\* the arguments from position i on as the wire holds them behind pos: a float
\* of four bytes where types has 'f', else a varint; len is where they end
RECURSIVE WireArgs(_, _, _, _, _)
WireArgs(bytes, types, count, i, pos) ==
    IF i = count THEN [len |-> pos, vals |-> <<>>]
    ELSE IF i < Len(types) /\ types[i + 1] = 102
    THEN LET more == WireArgs(bytes, types, count, i + 1, pos + 4)
         IN  [len |-> more.len,
              vals |-> <<[f32 |-> <<WireByte(bytes, pos + 4) * 256 + WireByte(bytes, pos + 3),
                                    WireByte(bytes, pos + 2) * 256 + WireByte(bytes, pos + 1)>>]>> \o more.vals]
    ELSE LET n == WireVarintLen(bytes, pos)
             more == WireArgs(bytes, types, count, i + 1, pos + n)
         IN  [len |-> more.len,
              vals |-> <<WireSigned(WirePayload(bytes, pos, n))>> \o more.vals]

\* the bytes of the packet in hand are the bytes of the stream from where the
\* packet before it ended
DPacketIsNextSlice ==
    d_closed = "no" /\ d_pc # "token" =>
        d_pkt = SubSeq(DStream, DConsumed - Len(d_pkt) + 1, DConsumed)

\* a packet starts at the byte behind the last byte of the packet before it
DStartsBehindLast ==
    /\ (d_pc = "token" /\ d_pc' = "meta" =>
           d_pkt' = SubSeq(DStream, DConsumed + 1, DConsumed + 4) /\ DConsumed' = DConsumed + 4)
    /\ (d_pc = "emit" => DConsumed' = DConsumed)

\* a known token's arguments are all read: they are the wire's
DKnownArgsFromWire ==
    d_pc = "emit" /\ Known(d_loc.token_id) =>
        LET w == WireArgs(SubSeq(d_pkt, 6, Len(d_pkt)), Entry(d_loc.token_id).arg_types,
                          d_pkt[5] % 16, 0, 0)
        IN  /\ d_loc.arg_count = d_pkt[5] % 16
            /\ Len(d_loc.args) = d_loc.arg_count
            /\ d_loc.args = w.vals
            /\ Len(d_pkt) = 5 + w.len

\* the record of a known token carries those arguments
DRecordCarriesArgs ==
    d_pc = "emit" /\ Known(d_loc.token_id) /\ Len(d_out') = Len(d_out) + 1
      /\ "raw_args" \in DOMAIN d_out'[Len(d_out')]
        => d_out'[Len(d_out')].raw_args = d_loc.args

\* C28: for a packet whose token is in the database decode_stream reads, behind
\* the 5-byte header and for each argument position below the wire's argument
\* count, 4 bytes as a little-endian float where the token's argType is float
\* and else one varint of 1 to 5 bytes that is zig-zag decoded; raw_args holds
\* as many values as the wire's count, in order; and the next packet starts at
\* the byte behind the last argument.
C28_KnownTokenFraming ==
    /\ [](DPacketIsNextSlice /\ DKnownArgsFromWire)
    /\ [][DStartsBehindLast /\ DRecordCarriesArgs]_vars

\* a float and a varint of two bytes, then a packet that starts right behind
C28_Witness ==
    /\ d_sent = <<PKT_temp_two, PKT_retry>>
    /\ Len(d_out) = 2
    /\ d_out[1].raw_args = <<[f32 |-> <<16320, 0>>], SignedOf(150)>>
    /\ d_out[2].raw_args = <<SignedOf(0 - 3)>>
    /\ d_pc = "token"

\* C29: for a packet whose arguments are all varints decode_stream consumes
\* the same number of bytes whether or not the token is in the database: the
\* skip of an unknown token takes at most 5 bytes for each argument claimed,
\* and after the last one as many bytes as the known path would have taken.
C29_FramingIgnoresDatabase ==
    d_closed = "no" /\ d_pc \in {"skip", "emit"} /\ ~Known(d_loc.token_id) =>
        /\ Len(d_pkt) - 5 <= 5 * Min(d_loc.arg_count, d_loc.i + 1)
        /\ (d_pc = "emit" =>
               Len(d_pkt) = 5 + WireArgs(SubSeq(d_pkt, 6, Len(d_pkt)), <<>>,
                                         d_loc.arg_count, 0, 0).len)

InInt32(v) == v.mag[1] < W16 \div 2

\* C30: every integer argument of an emitted record is a signed 32-bit value:
\* each entry of raw_args that is not a float lies in -2^31 .. 2^31-1.
C30_ArgsAreInt32 ==
    \A k \in 1..Len(d_out) :
        "raw_args" \in DOMAIN d_out[k] =>
            \A j \in 1..Len(d_out[k].raw_args) :
                IsFloatVal(d_out[k].raw_args[j]) \/ InInt32(d_out[k].raw_args[j])

\* --------------------------------------------------------------------------
\* Properties of the build-id marker (under SpecMarker)
\* --------------------------------------------------------------------------
\* the record carries the key '_build_id_verified'
Verified(record) == "build_id_verified" \in DOMAIN record /\ record.build_id_verified

\* the record is the one of the build-id marker
IsMarkerRecord(record) == record.msg = format_message(STR_build, record.raw_args).text

\* C31: a record is marked _build_id_verified only after a successful
\* comparison: it is the build-id marker, it carries a first argument, and that
\* argument as unsigned 32-bit equals the database's build id.
C31_VerifiedOnlyAfterComparison ==
    \A k \in 1..Len(d_out) :
        Verified(d_out[k]) =>
            /\ IsMarkerRecord(d_out[k])
            /\ d_out[k].raw_args # <<>>
            /\ d_expected # <<>>
            /\ SignedMask32(d_out[k].raw_args[1]) = WideMask32(d_expected[1])

\* --------------------------------------------------------------------------
\* Properties of the raw tier read by the dashboard (under SpecPipeline)
\* --------------------------------------------------------------------------
\* the stack watermarks the raw-tier lines read so far hold for task_num
RECURSIVE WatermarksOf(_, _, _)
WatermarksOf(task_num, line, k) ==
    IF line > p_read THEN <<>>
    ELSE IF k > Len(p_an.raw[line].tasks) THEN WatermarksOf(task_num, line + 1, 1)
    ELSE (IF p_an.raw[line].tasks[k].task_number = task_num
          THEN <<p_an.raw[line].tasks[k].stack_hwm_words>> ELSE <<>>)
         \o WatermarksOf(task_num, line, k + 1)

\* C36: the stack watermark that the telemetry decoder records for a task in
\* the raw tier is the one the continuous engine analyses: for a raw-tier
\* record in which a task has the watermark w, process_telemetry feeds w, not
\* a default, into that task's stack statistics, so a task whose watermarks
\* are all at least twice the floor is classified healthy.
C36_RawWatermarkIsAnalysed ==
    /\ \A i \in 1..Len(p_tasks) :
           p_tasks[i].stack_hwms = WatermarksOf(p_tasks[i].task_number, 1, 1)
    /\ (p_output # <<>> =>
           \A i \in 1..Len(p_output[1].tasks) :
              LET w == WatermarksOf(p_output[1].tasks[i].task_number, 1, 1)
              IN  (\A k \in 1..Len(w) : w[k] >= 128) =>
                      p_output[1].tasks[i].stack_status = "healthy")

\* --------------------------------------------------------------------------
\* Properties of the format strings (under SpecFormats)
\* --------------------------------------------------------------------------
\* C39: for every format string the number of argument types that
\* parse_arg_types infers equals the number of arguments that format_message
\* consumes when it is given enough of them, so that the i-th rendered
\* argument is the one whose type is argTypes[i]; a literal %% counts as no
\* argument in both.
C39_TypesMatchConsumption ==
    g_fmt # <<>> /\ g_types # <<>> /\ g_render # <<>> =>
        Len(g_types[1]) = g_render[1].arg_idx

\* --------------------------------------------------------------------------
\* Properties of the level of a record (under SpecFraming)
\* --------------------------------------------------------------------------
\* the name of the severity in the high nibble of a meta byte
WireLevelName(meta_byte) ==
    CASE meta_byte \div 16 = 0 -> "ERROR"
      [] meta_byte \div 16 = 1 -> "WARN"
      [] meta_byte \div 16 = 2 -> "INFO"
      [] meta_byte \div 16 = 3 -> "DEBUG"
      [] OTHER -> "UNKNOWN"

\* C40: the level of a decoded record is the severity sent on the wire: for
\* every packet, known token or not, it is the name of the severity in the
\* high nibble of the packet's fifth byte (0 ERROR, 1 WARN, 2 INFO, 3 DEBUG).
C40_LevelFromWire ==
    d_pc = "token" /\ d_out # <<>> /\ Len(d_pkt) >= 5
      /\ "token" \in DOMAIN d_out[Len(d_out)] =>
        d_out[Len(d_out)].level = WireLevelName(d_pkt[5])

=============================================================================
